---- MODULE Spec2Model ----
(***************************************************************************)
(* Model of the auto-minutes pipeline (src/src/index.js, publisher.js):    *)
(* the summarize (Collect/Generate) stage of main(), the artifact cache    *)
(* files cache/output/ietf<N>/<sessionId> and the cache manifest           *)
(* cache/output/ietf<N>/.manifest.json, for one meeting number.            *)
(***************************************************************************)
EXTENDS Integers, Sequences, FiniteSets, TLC

\* ------------------------------------------------------------------ bounds
MaxItems == 3      \* longest session list the Item Source returns
MaxRuns  == 2      \* number of pipeline invocations in one behaviour
MaxEntries == 3    \* longest directory listing
MaxParts == 3      \* most '-'-separated fields of a session id given to parseSessionId
MaxGroups == 2     \* most groups given to saveCacheManifest
MaxMembers == 2    \* most members of a group given to saveCacheManifest
MaxNameParts == 2  \* most '-'-separated fields of the name in an id given to isValidSessionId

\* ------------------------------------------------------- the environment
\* Session ids the Item Source can list, with the display name and the
\* recording link it reports for each.
Ids == {"A1", "A2", "B1"}
NameOf == [id \in Ids |-> IF id = "B1" THEN "Y" ELSE "X"]
UrlOf  == [id \in Ids |-> IF id = "A1" THEN "u1" ELSE IF id = "A2" THEN "u2" ELSE "u3"]

\* A session object as pushed by fetchSessionsFromProceedings.
Session(id) == [sessionName |-> NameOf[id], sessionId |-> id, recordingUrl |-> UrlOf[id]]

\* Texts generateMinutes can return for a session (after
\* cleanMarkdownCodeFence, which trims: the empty string is a possible
\* result).
TextOf == [id \in Ids |-> IF id = "A1" THEN "one" ELSE IF id = "A2" THEN "two" ELSE "three"]
GenOutputs(id) == {"", TextOf[id]}

\* What a file holds when fs.writeFile(path, text) was cut short: the file
\* was opened with flag 'w' (created/truncated) and a proper prefix of the
\* text got written.
Truncations(text) ==
  IF text = "one" THEN {"", "o"}
  ELSE IF text = "two" THEN {"", "t"}
  ELSE IF text = "three" THEN {"", "th"}
  ELSE {""}
Absent == "ENOENT"      \* no such cache file

\* States of the file .manifest.json: missing, truncated or partially
\* written (JSON.parse throws on it), or the complete JSON text of
\* {generated, sessionGroups}.
NoManifest == [state |-> "ENOENT", generated |-> 0, sessionGroups |-> <<>>]
TornManifest == [state |-> "torn", generated |-> 0, sessionGroups |-> <<>>]
ManifestFile(time, groups) == [state |-> "ok", generated |-> time, sessionGroups |-> groups]

SeqsUpTo(S, n) == UNION {[1..k -> S] : k \in 0..n}

VARIABLES
  sessions,          \* list the Item Source returns for the meeting
  cache,             \* sessionId -> content of the cache file, or Absent
  manifest,          \* the file .manifest.json of the meeting
  pc,                \* position of main()
  runs,              \* number of invocations started so far
  sessionsByName,    \* main: the Map, as a sequence of [sessionName, sessionGroup]
  gi, si,            \* main: position of the two nested for-loops
  processedSessions, \* main: members collected for the current group
  sessionGroups,     \* main: groups collected for the manifest
  anyNewMinutes,     \* main: flag
  minutes,           \* generateSessionMinutes: text returned by generateMinutes
  hit, fetched, failedFetch, generated, wrote,  \* this run's call log, by loop position
  writeCount,        \* sessionId -> number of saveCachedMinutes calls, all runs
  manifestAtStart,   \* manifest file when the current run started
  savedThisRun,      \* saveCacheManifest completed in the current run
  failure            \* what threw in the current invocation, "none" if nothing did

VARIABLES
  cacheBase,            \* the directory cache/output
  manifests,            \* meeting number -> the file .manifest.json of its cache directory
  cacheFiles,           \* meeting number -> sessionId -> content of the cache file
  cachedMeetings, mi,   \* output stage: the meetings found and the loop position
  sessionGroupsOut,     \* output stage: the sessionGroups loaded for the meeting
  ogi,                  \* output stage: position of the loop over the groups
  processedSessionsOut, \* output stage: names of the groups written
  siteFiles,            \* meeting number -> files <name>.md/.txt of site/minutes/ietf<N>
  siteIndex,            \* meeting number -> index.md and .manifest.json of site/minutes/ietf<N>
  siteRoot,             \* the directory site
  rootIndex,            \* the file site/index.md
  input, output         \* a function applied on its own: argument and result

VARIABLES
  argv,        \* the command line options as yargs parsed them
  apiKey,      \* the API key of the chosen model is in the environment
  stageLog,    \* the stages of main() entered so far, in order
  siteBuild,   \* the directory _site and the prepared gh-pages commit
  preview      \* preview mode: matching sessions, loop position, call log, output

VARIABLES
  cwd,          \* the working directory of the process, relative to where it started
  ghPagesRepo,  \* the directory gh-pages-repo exists (in the starting directory)
  anthropic,    \* generator.js: the Claude client, or null
  gemini,       \* generator.js: the Gemini client, or null
  currentModel, \* generator.js: "claude", "gemini" or null
  calls,        \* generator.js: the calls made so far and what each did
  procs         \* two concurrent --summarize invocations: the locals of each

outVars == <<cacheBase, manifests, cacheFiles, cachedMeetings, mi, sessionGroupsOut,
             ogi, processedSessionsOut, siteFiles, siteIndex, siteRoot, rootIndex>>
fnVars == <<input, output>>
pagesVars == <<cwd, ghPagesRepo>>
genVars == <<anthropic, gemini, currentModel, calls>>
raceVars == <<procs>>
otherVars == <<pagesVars, genVars, raceVars>>
cliVars == <<argv, apiKey, stageLog, siteBuild, preview, otherVars>>

vars == <<sessions, cache, manifest, pc, runs, sessionsByName, gi, si,
          processedSessions, sessionGroups, anyNewMinutes, minutes,
          hit, fetched, failedFetch, generated, wrote, writeCount,
          manifestAtStart, savedThisRun, failure, outVars, fnVars, cliVars>>

mainVars == <<sessionsByName, gi, si, processedSessions, sessionGroups,
              anyNewMinutes, minutes>>
logVars == <<hit, fetched, failedFetch, generated, wrote>>
runVars == <<manifestAtStart, savedThisRun>>
pipeVars == <<sessions, cache, manifest, runs, mainVars, logVars, writeCount, runVars>>

Terminal == {"idle", "done", "failed", "killed"}

\* --------------------------------------------------------------- helpers
\* publisher.js cacheExists: fs.access on the cache file.
cacheExistsNever(id) == FALSE

cacheExists(id) == cache[id] # Absent

\* publisher.js 179-186 loadCacheManifest: what a call made now returns or
\* throws. A missing file makes readFile throw ENOENT, a truncated or
\* partial file makes JSON.parse throw a SyntaxError.
loadCacheManifest ==
  IF manifest.state = "ENOENT" THEN [error |-> "ENOENT", sessionGroups |-> <<>>]
  ELSE IF manifest.state = "torn" THEN [error |-> "SyntaxError", sessionGroups |-> <<>>]
  ELSE [error |-> "", sessionGroups |-> manifest.sessionGroups]

\* publisher.js getCachedMinutes: the content of the cache file.
getCachedMinutes(id) == cache[id]

\* index.js 322-328: group the sessions by name; a Map keeps its keys in
\* insertion order, i.e. in order of first occurrence.
RECURSIVE GroupInto(_, _, _)
GroupInto(ss, i, map) ==
  IF i > Len(ss) THEN map
  ELSE LET s == ss[i]
           has == \E k \in 1..Len(map) : map[k].sessionName = s.sessionName
           m1 == IF has THEN map
                 ELSE Append(map, [sessionName |-> s.sessionName, sessionGroup |-> <<>>])
           m2 == [k \in 1..Len(m1) |->
                    IF m1[k].sessionName = s.sessionName
                    THEN [m1[k] EXCEPT !.sessionGroup = Append(@, s)]
                    ELSE m1[k]]
       IN GroupInto(ss, i + 1, m2)

GroupByNameUngrouped(ss) ==
  [k \in 1..Len(ss) |-> [sessionName |-> ss[k].sessionName, sessionGroup |-> <<ss[k]>>]]

GroupByName(ss) == GroupInto(ss, 1, <<>>)

\* The session the loops are at.
CurGroup == sessionsByName[gi]
CurSession == CurGroup.sessionGroup[si]
Pos == <<gi, si>>
InPass == gi <= Len(sessionsByName)

\* index.js 42: result of a cache hit.
HitResultGenerated(text) == [minutes |-> text, wasGenerated |-> TRUE]

HitResult(text) == [minutes |-> text, wasGenerated |-> FALSE]

\* index.js 52: result when the transcript could not be fetched.
NoTranscriptResultPlaceholder == [minutes |-> "one", wasGenerated |-> FALSE]

NoTranscriptResult == [minutes |-> "", wasGenerated |-> FALSE]

\* index.js 63: result of a fresh generation.
GeneratedResultNotFlagged(text) == [minutes |-> text, wasGenerated |-> FALSE]

GeneratedResult(text) == [minutes |-> text, wasGenerated |-> TRUE]

\* index.js 353: the item is left out when it has no minutes.
SkipItemNever(result) == FALSE

SkipItem(result) == result.minutes = ""

\* index.js 370: a group is kept only with at least one processed session.
RetainGroupAlways(ps) == TRUE

RetainGroup(ps) == Len(ps) > 0

\* index.js 333: the outer loop goes on while the Map has further entries.
MoreGroupsNever(g) == FALSE

MoreGroups(g) == g < Len(sessionsByName)

\* index.js 456-458: main's catch logs the error and calls process.exit(1).
ExitOnErrorSwallowed == "done"

ExitOnError == "failed"

\* index.js 339-345: the for-of loop awaits generateSessionMinutes, so a
\* step at loop position p starts the calls of that session only.
StartedWholeGroup(p) == {<<p[1], i>> : i \in p[2]..Len(sessionsByName[p[1]].sessionGroup)}

Started(p) == {p}

\* index.js 379: the manifest is saved only if new minutes were generated.
ShouldSaveManifestAlways == TRUE

ShouldSaveManifest == anyNewMinutes

\* index.js 347-376: the rest of the loop body once generateSessionMinutes
\* has returned `result`, and the step to the next session or group.
FinishItem(result) ==
  LET ps == IF SkipItem(result) THEN processedSessions
            ELSE Append(processedSessions,
                        [sessionId |-> CurSession.sessionId,
                         recordingUrl |-> CurSession.recordingUrl])
  IN /\ anyNewMinutes' = (anyNewMinutes \/ result.wasGenerated)
     /\ minutes' = ""
     /\ sessionsByName' = sessionsByName
     /\ IF si < Len(CurGroup.sessionGroup)
        THEN /\ si' = si + 1
             /\ gi' = gi
             /\ processedSessions' = ps
             /\ sessionGroups' = sessionGroups
             /\ pc' = "check"
        ELSE /\ si' = 1
             /\ processedSessions' = <<>>
             /\ sessionGroups' =
                  IF RetainGroup(ps)
                  THEN Append(sessionGroups,
                              [sessionName |-> CurGroup.sessionName, sessions |-> ps])
                  ELSE sessionGroups
             /\ gi' = gi + 1
             /\ pc' = IF MoreGroups(gi) THEN "check" ELSE "passdone"

\* ==================================================================
\* The output (Assemble) stage of main(), index.js 388-447, and the pure
\* functions it uses. Strings the code inspects character by character
\* (directory names, session ids, session names) are sequences of
\* one-character strings; texts it only copies are strings.
\* ==================================================================

\* ------------------------------------------------ characters and strings
Digits == <<"0", "1", "2", "3", "4", "5", "6", "7", "8", "9">>
LowerCase == <<"a", "b", "c", "d", "e", "f", "g", "h", "i", "j", "k", "l", "m",
               "n", "o", "p", "q", "r", "s", "t", "u", "v", "w", "x", "y", "z">>
UpperCase == <<"A", "B", "C", "D", "E", "F", "G", "H", "I", "J", "K", "L", "M",
               "N", "O", "P", "Q", "R", "S", "T", "U", "V", "W", "X", "Y", "Z">>

IsIn(c, alphabet) == \E i \in 1..Len(alphabet) : alphabet[i] = c
IndexOf(c, alphabet) == CHOOSE i \in 1..Len(alphabet) : alphabet[i] = c
IsDigit(c) == IsIn(c, Digits)
DigitValue(c) == IndexOf(c, Digits) - 1

\* UTF-16 code unit of the characters that occur in the model.
CodeUnit(c) ==
  IF IsDigit(c) THEN 47 + IndexOf(c, Digits)
  ELSE IF IsIn(c, UpperCase) THEN 64 + IndexOf(c, UpperCase)
  ELSE IF IsIn(c, LowerCase) THEN 96 + IndexOf(c, LowerCase)
  ELSE IF c = " " THEN 32
  ELSE IF c = "-" THEN 45
  ELSE IF c = "." THEN 46
  ELSE 95

\* String.prototype.toLowerCase.
toLowerCase(s) ==
  [i \in 1..Len(s) |->
     IF IsIn(s[i], UpperCase) THEN LowerCase[IndexOf(s[i], UpperCase)] ELSE s[i]]

\* The string made of the characters of s.
RECURSIVE Str(_)
Str(s) == IF s = <<>> THEN "" ELSE Head(s) \o Str(Tail(s))

\* String.prototype.split(sep) for a one-character separator.
RECURSIVE SplitFrom(_, _, _, _, _)
SplitFrom(s, sep, i, cur, acc) ==
  IF i > Len(s) THEN Append(acc, cur)
  ELSE IF s[i] = sep THEN SplitFrom(s, sep, i + 1, <<>>, Append(acc, cur))
  ELSE SplitFrom(s, sep, i + 1, Append(cur, s[i]), acc)
Split(s, sep) == SplitFrom(s, sep, 1, <<>>, <<>>)

\* Array.prototype.join(sep) on an array of character sequences.
RECURSIVE JoinChars(_, _)
JoinChars(parts, sep) ==
  IF parts = <<>> THEN <<>>
  ELSE IF Len(parts) = 1 THEN parts[1]
  ELSE parts[1] \o <<sep>> \o JoinChars(Tail(parts), sep)

\* parseInt(s, 10) on a string without whitespace and sign: the value of
\* the longest prefix of digits, NaN when that prefix is empty.
NaN == -1
RECURSIVE DigitsValue(_, _, _)
DigitsValue(s, i, acc) ==
  IF i > Len(s) \/ ~IsDigit(s[i]) THEN acc
  ELSE DigitsValue(s, i + 1, 10 * acc + DigitValue(s[i]))
parseInt(s) == IF s = <<>> \/ ~IsDigit(s[1]) THEN NaN ELSE DigitsValue(s, 1, 0)

\* Number.prototype.toString of a natural number, as characters.
RECURSIVE Decimal(_)
Decimal(n) == IF n < 10 THEN <<Digits[n + 1]>> ELSE Append(Decimal(n \div 10), Digits[(n % 10) + 1])

\* Comparison of two strings by code units: negative, zero or positive.
RECURSIVE CodeUnitCompareFrom(_, _, _)
CodeUnitCompareFrom(a, b, i) ==
  IF i > Len(a) /\ i > Len(b) THEN 0
  ELSE IF i > Len(a) THEN -1
  ELSE IF i > Len(b) THEN 1
  ELSE IF CodeUnit(a[i]) # CodeUnit(b[i]) THEN CodeUnit(a[i]) - CodeUnit(b[i])
  ELSE CodeUnitCompareFrom(a, b, i + 1)
CodeUnitCompare(a, b) == CodeUnitCompareFrom(a, b, 1)

\* String.prototype.localeCompare on strings of lower-case letters and
\* digits, where the locale's order is the alphabetical one.
localeCompare(a, b) == CodeUnitCompare(a, b)

\* Array.prototype.sort(compare): a stable sort; the element at rank k is
\* the one with k-1 elements before it in the order (ties by position).
SortWith(s, Compare(_, _)) ==
  LET Before(j, i) == Compare(s[j], s[i]) < 0 \/ (Compare(s[j], s[i]) = 0 /\ j < i)
      Rank(i) == Cardinality({j \in 1..Len(s) : Before(j, i)}) + 1
  IN [k \in 1..Len(s) |-> s[CHOOSE i \in 1..Len(s) : Rank(i) = k]]

\* Array.prototype.filter and map.
Filter(s, Test(_)) == SelectSeq(s, Test)
Map(s, F(_)) == [i \in 1..Len(s) |-> F(s[i])]

\* ------------------------------------------------------- parseSessionId
monthNames == <<"Jan", "Feb", "Mar", "Apr", "May", "Jun",
                "Jul", "Aug", "Sep", "Oct", "Nov", "Dec">>

\* index.js 83: the header is built when both fields are non-empty and
\* have the lengths 8 and 4.
HasDateTime(dateStr, timeStr) ==
  /\ dateStr # <<>> /\ timeStr # <<>>
  /\ Len(dateStr) = 8 /\ Len(timeStr) = 4

\* String.prototype.substring(from, to) with 0-based bounds.
substring(s, from, to) ==
  LET hi == IF to > Len(s) THEN Len(s) ELSE to
  IN IF from >= hi THEN <<>> ELSE SubSeq(s, from + 1, hi)

\* index.js 72-111.
parseSessionId(sessionId) ==
  LET parts == Split(sessionId, "-")
      n == Len(parts)
      \* parts[parts.length - 2] is undefined when there is one part only
      dateStr == IF n >= 2 THEN parts[n - 1] ELSE <<>>
      timeStr == parts[n]
      sessionName == JoinChars(IF n >= 4 THEN SubSeq(parts, 2, n - 2) ELSE <<>>, "-")
      year == substring(dateStr, 0, 4)
      month == substring(dateStr, 4, 6)
      day == substring(dateStr, 6, 8)
      hour == substring(timeStr, 0, 2)
      minute == substring(timeStr, 2, 4)
      k == parseInt(month)
      monthName == IF k >= 1 /\ k <= 12 THEN monthNames[k] ELSE "undefined"
      formattedDateTime == Str(day) \o " " \o monthName \o " " \o Str(year)
                             \o " " \o Str(hour) \o ":" \o Str(minute)
  IN [sessionName |-> sessionName,
      dateTimeHeader |-> IF HasDateTime(dateStr, timeStr)
                         THEN "**Session Date/Time:** " \o formattedDateTime \o "\n\n"
                         ELSE ""]

\* ------------------------------------------------- sanitizeSessionName
\* publisher.js 19-24: lower case, every run of characters outside
\* [a-z0-9] becomes one "-", leading and trailing "-" are removed.
IsNameChar(c) == IsIn(c, LowerCase) \/ IsDigit(c)

RECURSIVE ReplaceRuns(_, _, _)
ReplaceRuns(s, i, acc) ==
  IF i > Len(s) THEN acc
  ELSE IF IsNameChar(s[i]) THEN ReplaceRuns(s, i + 1, Append(acc, s[i]))
  ELSE IF i > 1 /\ ~IsNameChar(s[i - 1]) THEN ReplaceRuns(s, i + 1, acc)
  ELSE ReplaceRuns(s, i + 1, Append(acc, "-"))

RECURSIVE TrimDashes(_)
TrimDashes(s) ==
  IF s = <<>> THEN s
  ELSE IF Head(s) = "-" THEN TrimDashes(Tail(s))
  ELSE IF s[Len(s)] = "-" THEN TrimDashes(SubSeq(s, 1, Len(s) - 1))
  ELSE s

sanitizeSessionName(sessionName) == TrimDashes(ReplaceRuns(toLowerCase(sessionName), 1, <<>>))

\* ------------------------------------------------ directories of meetings
\* A directory as fs.readdir(dir, {withFileTypes: true}) sees it: missing,
\* or its entries in the order the file system returns them.
NoDirectory == [exists |-> FALSE, entries |-> <<>>]
Directory(entries) == [exists |-> TRUE, entries |-> entries]
Entry(name, isDir) == [name |-> name, isDirectory |-> isDir]
ietf == <<"i", "e", "t", "f">>

\* String.prototype.startsWith.
startsWith(s, prefix) == Len(s) >= Len(prefix) /\ SubSeq(s, 1, Len(prefix)) = prefix

\* entry.name.match(/^ietf(\d+)$/): the digits of the capture group, or
\* null (the empty sequence stands for null: \d+ never matches it).
MatchMeetingDir(name) ==
  LET rest == SubSeq(name, 5, Len(name))
  IN IF startsWith(name, ietf) /\ rest # <<>> /\ \A i \in 1..Len(rest) : IsDigit(rest[i])
     THEN rest ELSE <<>>

null == -2

\* publisher.js 63-69 and 309-316: directories named ietf<digits>, as
\* numbers.
MeetingNumbersOf(entries) ==
  LET dirs == Filter(entries, LAMBDA e : e.isDirectory /\ startsWith(e.name, ietf))
      nums == Map(dirs, LAMBDA e : IF MatchMeetingDir(e.name) # <<>>
                                   THEN parseInt(MatchMeetingDir(e.name)) ELSE null)
  IN Filter(nums, LAMBDA num : num # null)

\* publisher.js 70: .sort((a, b) => a - b); without the compare function
\* sort() would order the numbers by their string forms.
CompareAsStrings(a, b) == CodeUnitCompare(Decimal(a), Decimal(b))

CompareMeetingNumbers(a, b) == a - b

\* publisher.js 58-77.
getCachedMeetingNumbers(cacheBaseDir) ==
  IF ~cacheBaseDir.exists THEN <<>>
  ELSE SortWith(MeetingNumbersOf(cacheBaseDir.entries), CompareMeetingNumbers)

\* publisher.js 317: .sort((a, b) => a - b).
CompareRootMeetings(a, b) == a - b

\* publisher.js 305-330: the meetings the root index links, in the order of
\* its lines "- [IETF n](minutes/ietfn/index.html)"; no line when the list
\* is empty ("No meetings processed yet.").
RootIndexMeetings(outputDir) ==
  IF ~outputDir.exists THEN <<>>
  ELSE SortWith(MeetingNumbersOf(outputDir.entries), CompareRootMeetings)

\* ------------------------------------------------------- the manifest file
\* The text of a JSON file as its sequence of tokens (white space and
\* indentation left out): punctuation and string literals.
Punct(c) == [t |-> "punct", v |-> c]
StringToken(s) == [t |-> "string", v |-> s]

\* JSON.stringify of the array of {sessionId, recordingUrl} objects: the
\* properties in creation order, the elements in index order.
RECURSIVE StringifyMembers(_)
StringifyMembers(ms) ==
  IF ms = <<>> THEN <<>>
  ELSE LET m == ms[1]
           one == <<Punct("{"), StringToken("sessionId"), Punct(":"), StringToken(m.sessionId),
                    Punct(","), StringToken("recordingUrl"), Punct(":"),
                    StringToken(m.recordingUrl), Punct("}")>>
       IN IF Len(ms) = 1 THEN one
          ELSE one \o <<Punct(",")>> \o StringifyMembers(Tail(ms))

\* JSON.stringify of the array of {sessionName, sessions} objects.
RECURSIVE StringifyGroups(_)
StringifyGroups(gs) ==
  IF gs = <<>> THEN <<>>
  ELSE LET g == gs[1]
           one == <<Punct("{"), StringToken("sessionName"), Punct(":"),
                    StringToken(g.sessionName), Punct(","), StringToken("sessions"),
                    Punct(":"), Punct("[")>> \o StringifyMembers(g.sessions)
                    \o <<Punct("]"), Punct("}")>>
       IN IF Len(gs) = 1 THEN one
          ELSE one \o <<Punct(",")>> \o StringifyGroups(Tail(gs))

\* The elements of s in reverse order.
Reverse(s) == [i \in 1..Len(s) |-> s[Len(s) + 1 - i]]

\* publisher.js 162-169: JSON.stringify({generated, sessionGroups}, null, 2).
StringifyManifestReversed(time, groups) ==
  <<Punct("{"), StringToken("generated"), Punct(":"), StringToken(time), Punct(","),
    StringToken("sessionGroups"), Punct(":"), Punct("[")>>
    \o StringifyGroups(Reverse(groups)) \o <<Punct("]"), Punct("}")>>

StringifyManifest(time, groups) ==
  <<Punct("{"), StringToken("generated"), Punct(":"), StringToken(time), Punct(","),
    StringToken("sessionGroups"), Punct(":"), Punct("[")>>
    \o StringifyGroups(groups) \o <<Punct("]"), Punct("}")>>

\* A file: missing, or its text.
NoFile == [exists |-> FALSE, text |-> <<>>]
File(text) == [exists |-> TRUE, text |-> text]

\* publisher.js 155-172 saveCacheManifest: the file a completed call
\* leaves.
saveCacheManifest(time, groups) == File(StringifyManifest(time, groups))

\* JSON.parse: a value is a string, an array of values or an object, i.e.
\* its properties in the order of the text. ParseValue(toks, i) reads the
\* value that starts at token i; `next` is the token after it, `ok` is
\* FALSE where JSON.parse throws a SyntaxError.
ParseError == [ok |-> FALSE, value |-> [t |-> "undefined"], next |-> 0]
IsPunct(toks, i, c) == i <= Len(toks) /\ toks[i].t = "punct" /\ toks[i].v = c
IsString(toks, i) == i <= Len(toks) /\ toks[i].t = "string"

RECURSIVE ParseValue(_, _)
RECURSIVE ParseElements(_, _, _)
RECURSIVE ParseProperties(_, _, _)

\* The elements of an array after "[" or after a ",".
ParseElements(toks, i, acc) ==
  LET e == ParseValue(toks, i)
  IN IF ~e.ok THEN ParseError
     ELSE IF IsPunct(toks, e.next, ",")
          THEN ParseElements(toks, e.next + 1, Append(acc, e.value))
     ELSE IF IsPunct(toks, e.next, "]")
          THEN [ok |-> TRUE, value |-> [t |-> "array", items |-> Append(acc, e.value)],
                next |-> e.next + 1]
     ELSE ParseError

\* The properties of an object after "{" or after a ",".
ParseProperties(toks, i, acc) ==
  IF ~(IsString(toks, i) /\ IsPunct(toks, i + 1, ":")) THEN ParseError
  ELSE LET p == ParseValue(toks, i + 2)
           props == Append(acc, [key |-> toks[i].v, value |-> p.value])
       IN IF ~p.ok THEN ParseError
          ELSE IF IsPunct(toks, p.next, ",") THEN ParseProperties(toks, p.next + 1, props)
          ELSE IF IsPunct(toks, p.next, "}")
               THEN [ok |-> TRUE, value |-> [t |-> "object", props |-> props],
                     next |-> p.next + 1]
          ELSE ParseError

ParseValue(toks, i) ==
  IF IsString(toks, i)
  THEN [ok |-> TRUE, value |-> [t |-> "string", s |-> toks[i].v], next |-> i + 1]
  ELSE IF IsPunct(toks, i, "[")
       THEN IF IsPunct(toks, i + 1, "]")
            THEN [ok |-> TRUE, value |-> [t |-> "array", items |-> <<>>], next |-> i + 2]
            ELSE ParseElements(toks, i + 1, <<>>)
  ELSE IF IsPunct(toks, i, "{")
       THEN IF IsPunct(toks, i + 1, "}")
            THEN [ok |-> TRUE, value |-> [t |-> "object", props |-> <<>>], next |-> i + 2]
            ELSE ParseProperties(toks, i + 1, <<>>)
  ELSE ParseError

JSONparse(text) ==
  LET r == ParseValue(text, 1)
  IN IF r.ok /\ r.next = Len(text) + 1 THEN r ELSE ParseError

\* obj.key on a parsed object: the last property of that name.
HasProperty(obj, key) ==
  obj.t = "object" /\ \E i \in 1..Len(obj.props) : obj.props[i].key = key
Property(obj, key) ==
  LET i == CHOOSE j \in 1..Len(obj.props) :
             /\ obj.props[j].key = key
             /\ \A k \in (j + 1)..Len(obj.props) : obj.props[k].key # key
  IN obj.props[i].value

\* The parsed sessionGroups as the output stage reads them: group.sessionName,
\* group.sessions, session.sessionId and session.recordingUrl (index.js
\* 407-420).
GroupsOfValue(v) ==
  [g \in 1..Len(v.items) |->
     [sessionName |-> Property(v.items[g], "sessionName").s,
      sessions |->
        LET ms == Property(v.items[g], "sessions").items
        IN [m \in 1..Len(ms) |->
              [sessionId |-> Property(ms[m], "sessionId").s,
               recordingUrl |-> Property(ms[m], "recordingUrl").s]]]]

\* publisher.js 179-186 loadCacheManifest on a manifest file: readFile
\* throws ENOENT on a missing file, JSON.parse a SyntaxError on a text that
\* is not JSON; otherwise the sessionGroups property is returned.
loadCacheManifestFile(file) ==
  IF ~file.exists THEN [error |-> "ENOENT", sessionGroups |-> <<>>]
  ELSE LET r == JSONparse(file.text)
       IN IF ~r.ok THEN [error |-> "SyntaxError", sessionGroups |-> <<>>]
          ELSE [error |-> "",
                sessionGroups |-> GroupsOfValue(Property(r.value, "sessionGroups"))]

\* ------------------------------------------- the output stage: environment
\* Meeting numbers with a cache directory cache/output/ietf<N>.
Numbers == {3, 12, 101}
MeetingDirName(n) == ietf \o Decimal(n)

\* What cache/output can hold: meeting directories, a directory and a
\* plain file that only look like one.
EntryUniverse ==
  {Entry(MeetingDirName(n), TRUE) : n \in Numbers}
    \cup {Entry(ietf \o <<"x">>, TRUE), Entry(ietf \o <<"7">>, FALSE)}

\* Directory listings: no name twice, any order.
Listings ==
  {s \in SeqsUpTo(EntryUniverse, MaxEntries) :
     \A i, j \in 1..Len(s) : i # j => s[i].name # s[j].name}

HasMeetingDir(dir, n) ==
  \E i \in 1..Len(dir.entries) : dir.entries[i] = Entry(MeetingDirName(n), TRUE)

\* Session ids: two with a date and time, two without.
Date1 == <<"2", "0", "2", "5", "0", "7", "2", "1">>
Date2 == <<"2", "0", "2", "5", "0", "7", "2", "2">>
Time1 == <<"0", "7", "3", "0">>
W1 == <<"I", "-", "c", "-">> \o Date1 \o <<"-">> \o Time1
W2 == <<"I", "-", "a", "-">> \o Date2 \o <<"-">> \o Time1
N1 == <<"I", "-", "b", "-", "1">>
N2 == <<"I", "-", "b", "-", "2">>
OutIds == {W1, W2, N1, N2}

MemberOf(id, url) == [sessionId |-> id, recordingUrl |-> url]

\* The sessionGroups of a meeting's manifest as a summarize run collected
\* them: in the Item Source's order, which is not alphabetical.
GroupsA ==
  << [sessionName |-> <<"c">>, sessions |-> <<MemberOf(W1, "u1")>>],
     [sessionName |-> <<"B">>, sessions |-> <<MemberOf(N2, "u2"), MemberOf(N1, "u3")>>],
     [sessionName |-> <<"a">>, sessions |-> <<MemberOf(W2, "u4")>>] >>

\* What .manifest.json of a meeting can be: missing (no run got as far as
\* saving it), cut short by a kill during the write, or complete, with
\* the groups above or with none (every generated text was empty).
ManifestChoices ==
  {NoFile,
   File(SubSeq(StringifyManifest("t1", GroupsA), 1, 12)),
   saveCacheManifest("t1", GroupsA),
   saveCacheManifest("t1", <<>>)}

\* The cache files of a meeting: every member of the manifest has one.
CacheChoices ==
  {[id \in OutIds |-> IF id = W1 THEN "three" ELSE IF id = W2 THEN "four" ELSE f[id]] :
     f \in [{N1, N2} -> {"one", "two"}]}

\* The repository's site directory.
RepositorySite == Directory(<<Entry(<<"a", "b", "o", "u", "t", ".", "m", "d">>, FALSE)>>)

NoIndex == [exists |-> FALSE, sessions |-> <<>>, files |-> <<>>]
NoFiles == [name \in {} |-> [md |-> "", txt |-> ""]]
NoRootIndex == [exists |-> FALSE, meetings |-> <<>>]

\* ---------------------------------------------- the output stage: helpers
\* publisher.js 128-131 getCachedMinutes: the content of the cache file.
getCachedMinutesRegenerated(meetingNum, sessionId) == "regenerated"

getCachedMinutesFile(meetingNum, sessionId) == cacheFiles[meetingNum][sessionId]

\* index.js 413-421: the texts of a group's members, each behind its
\* date/time header, and their recording links, in the manifest's order.
allMinutes(meetingNum, group) ==
  [i \in 1..Len(group.sessions) |->
     parseSessionId(group.sessions[i].sessionId).dateTimeHeader
       \o getCachedMinutesFile(meetingNum, group.sessions[i].sessionId)]
recordingUrls(group) == [i \in 1..Len(group.sessions) |-> group.sessions[i].recordingUrl]

\* Array.prototype.join(sep) on an array of strings.
RECURSIVE JoinText(_, _)
JoinText(parts, sep) ==
  IF parts = <<>> THEN ""
  ELSE IF Len(parts) = 1 THEN parts[1]
  ELSE parts[1] \o sep \o JoinText(Tail(parts), sep)

\* index.js 424: allMinutes.join("\n\n---\n\n").
combinedMinutesReversed(texts) == JoinText(Reverse(texts), "\n\n---\n\n")

combinedMinutes(texts) == JoinText(texts, "\n\n---\n\n")

\* publisher.js 208-222: the header of the .md file.
RECURSIVE RecordingLinks(_, _)
RecordingLinks(urls, idx) ==
  IF idx > Len(urls) THEN ""
  ELSE "[Recording " \o Str(Decimal(idx)) \o "](" \o urls[idx] \o ")"
         \o (IF idx < Len(urls) THEN " | " ELSE "") \o RecordingLinks(urls, idx + 1)
MarkdownHeader(txtFilename, urls) ==
  "[Markdown Version](" \o txtFilename \o ")"
    \o (IF Len(urls) = 0 THEN ""
        ELSE IF Len(urls) = 1 THEN " | [Session Recording](" \o urls[1] \o ")"
        ELSE " | " \o RecordingLinks(urls, 1))

\* publisher.js 195-234 saveMinutes: the files of an output directory after
\* <sanitized>.md and <sanitized>.txt are written.
saveMinutes(files, sessionName, content, urls) ==
  LET sanitizedName == sanitizeSessionName(sessionName)
      txtFilename == Str(sanitizedName) \o ".txt"
  IN (sanitizedName :> [md |-> MarkdownHeader(txtFilename, urls) \o "\n\n" \o content,
                        txt |-> content]) @@ files

\* publisher.js 247-249: compare the lower-cased names.
CompareSessionNamesCaseSensitive(a, b) == CodeUnitCompare(a, b)

CompareSessionNames(a, b) == localeCompare(toLowerCase(a), toLowerCase(b))

\* publisher.js 242-289 generateIndex: the names index.md lists, in its
\* order, and the files listed in the output directory's .manifest.json.
RECURSIVE GeneratedFiles(_)
GeneratedFiles(names) ==
  IF names = <<>> THEN <<>>
  ELSE <<Str(sanitizeSessionName(names[1])) \o ".md",
         Str(sanitizeSessionName(names[1])) \o ".txt">> \o GeneratedFiles(Tail(names))
generateIndex(names) ==
  LET sortedSessions == SortWith(names, CompareSessionNames)
  IN [exists |-> TRUE, sessions |-> sortedSessions,
      files |-> <<"index.md">> \o GeneratedFiles(sortedSessions)]

\* index.js 400: the directory the output stage writes a meeting's files
\* to, `site/minutes/ietf${meetingNum}`, as the area and the meeting.
outputDirInCache(meetingNum) == [root |-> "cache/output", meeting |-> meetingNum]

outputDir(meetingNum) == [root |-> "site/minutes", meeting |-> meetingNum]

\* fs.mkdir(outputDir, {recursive: true}) with outputDir below site/minutes
\* creates site/minutes when it is missing.
minutesDir == Entry(<<"m", "i", "n", "u", "t", "e", "s">>, TRUE)
MkdirMinutes(site) ==
  IF \E i \in 1..Len(site.entries) : site.entries[i] = minutesDir THEN site
  ELSE Directory(Append(site.entries, minutesDir))

\* ------------------------------------------- scraper.js: session validation
\* JavaScript values a sessionId can be: a string, null (searchParams.get
\* without the parameter), undefined, a number.
StringValue(chars) == [type |-> "string", chars |-> chars, number |-> 0]
NullValue == [type |-> "object", chars |-> <<>>, number |-> 0]
UndefinedValue == [type |-> "undefined", chars |-> <<>>, number |-> 0]
NumberValue(n) == [type |-> "number", chars |-> <<>>, number |-> n]

IETF == <<"I", "E", "T", "F">>

\* scraper.js 196: the character class [A-Za-z0-9\-].
IsSessionNameCharNoHyphen(c) ==
  IsIn(c, UpperCase) \/ IsIn(c, LowerCase) \/ IsDigit(c)

IsSessionNameChar(c) ==
  IsIn(c, UpperCase) \/ IsIn(c, LowerCase) \/ IsDigit(c) \/ c = "-"

\* Every character of s from position a to position b passes the test of
\* \d.
AllDigits(s, a, b) == \A i \in a..b : IsDigit(s[i])

\* scraper.js 196-197: /^IETF\d+-[A-Za-z0-9\-]+-\d{8}-\d{4}$/.test(s): the
\* whole string splits into IETF, k >= 1 digits, a hyphen, m >= 1 name
\* characters, a hyphen, 8 digits, a hyphen and 4 digits.
PatternTest(s) ==
  \E k \in 1..Len(s) :
    LET m == Len(s) - (4 + k + 1) - (1 + 8 + 1 + 4)
        nameEnd == 4 + k + 1 + m
    IN /\ m >= 1
       /\ SubSeq(s, 1, 4) = IETF
       /\ AllDigits(s, 5, 4 + k)
       /\ s[4 + k + 1] = "-"
       /\ \A i \in (4 + k + 2)..nameEnd : IsSessionNameChar(s[i])
       /\ s[nameEnd + 1] = "-"
       /\ AllDigits(s, nameEnd + 2, nameEnd + 9)
       /\ s[nameEnd + 10] = "-"
       /\ AllDigits(s, nameEnd + 11, nameEnd + 14)

\* scraper.js 183-198.
isValidSessionId(sessionId) ==
  IF sessionId.type # "string" THEN FALSE ELSE PatternTest(sessionId.chars)

\* scraper.js 211-220: the loop over allSessions pushes each session to
\* validSessions or to invalidSessions.
RECURSIVE ValidationLoop(_, _, _, _)
ValidationLoop(allSessions, i, validSessions, invalidSessions) ==
  IF i > Len(allSessions)
  THEN [validSessions |-> validSessions, invalidSessions |-> invalidSessions]
  ELSE IF isValidSessionId(allSessions[i].sessionId)
  THEN ValidationLoop(allSessions, i + 1, Append(validSessions, allSessions[i]),
                      invalidSessions)
  ELSE ValidationLoop(allSessions, i + 1, validSessions,
                      Append(invalidSessions, allSessions[i]))

\* scraper.js 206-244 for the list the fetch function returned; of stats
\* the three counts (validationRate is a text made from them).
fetchSessionsWithValidation(allSessions) ==
  LET r == ValidationLoop(allSessions, 1, <<>>, <<>>)
  IN [validSessions |-> r.validSessions,
      invalidSessions |-> r.invalidSessions,
      stats |-> [total |-> Len(allSessions),
                 valid |-> Len(r.validSessions),
                 invalid |-> Len(r.invalidSessions)]]

\* scraper.js 253-256.
fetchValidSessionsUnfiltered(allSessions) == allSessions

fetchValidSessions(allSessions) ==
  fetchSessionsWithValidation(allSessions).validSessions

\* ------------------------------------------ the functions on their own
\* Inputs of the pure functions, drawn from bounded sets, and one
\* application of a function to the input.
PartUniverse ==
  {<<"I">>, <<"b">>, <<>>, Date1, Time1,
   <<"2", "0", "2", "5", "0", "7", "2", "X">>,
   <<"2", "0", "2", "5", "1", "3", "2", "1">>,
   <<"2", "0", "2", "5">>}
SessionIdInputs ==
  {JoinChars(ps, "-") : ps \in SeqsUpTo(PartUniverse, MaxParts) \ {<<>>}}

MemberUniverse == {MemberOf(N2, "u2"), MemberOf(W1, "u1")}
GroupUniverse ==
  {[sessionName |-> name, sessions |-> ms] :
     name \in {<<"B">>, <<"a">>}, ms \in SeqsUpTo(MemberUniverse, MaxMembers)}
GroupsInputs == SeqsUpTo(GroupUniverse, MaxGroups)

\* Session ids for the validation: a first field, up to MaxNameParts name
\* fields, a date field and a time field, each possibly left out, joined
\* by hyphens.
Optional(S) == {<<>>} \cup {<<x>> : x \in S}
FirstFields ==
  {IETF \o <<"1">>, IETF \o <<"1", "2">>, IETF, <<"i", "e", "t", "f", "1">>,
   <<"1">>, <<"X">> \o IETF \o <<"1">>}
NameFields == {<<"a">>, <<"6", "L">>, <<>>, <<"a", "_">>}
DateFields ==
  {Date1, <<"2", "0", "2", "5">>, <<"2", "0", "2", "5", "0", "7", "2", "X">>,
   Date1 \o <<"1">>}
TimeFields ==
  {Time1, <<"0", "7", "3">>, Time1 \o <<"0">>, <<"0", "7", "3", "X">>}
ValidationIds ==
  {JoinChars(f \o n \o d \o t, "-") :
     f \in Optional(FirstFields), n \in SeqsUpTo(NameFields, MaxNameParts),
     d \in Optional(DateFields), t \in Optional(TimeFields)}
ValueInputs ==
  {StringValue(id) : id \in ValidationIds}
    \cup {NullValue, UndefinedValue, NumberValue(123)}

\* Sessions as the fetch functions return them (scraper.js 38-107): the
\* sessionId is whatever the link's session parameter gave.
ValidId1 == IETF \o <<"1", "-", "a", "-">> \o Date1 \o <<"-">> \o Time1
ValidId2 == IETF \o <<"1", "-", "b", "-", "c", "-">> \o Date2 \o <<"-">> \o Time1
FetchedSession(name, id) ==
  [sessionName |-> name, sessionId |-> id, recordingUrl |-> "u"]
FetchedUniverse ==
  {FetchedSession(<<"a">>, StringValue(ValidId1)),
   FetchedSession(<<"b">>, StringValue(ValidId2)),
   FetchedSession(<<"a">>, StringValue(IETF \o <<"1", "-", "a", "-">> \o Date1)),
   FetchedSession(<<"c">>, NullValue)}
FetchedInputs == SeqsUpTo(FetchedUniverse, MaxItems)

NoValue == UndefinedValue
Input(kind, dir, sessionId, groups) ==
  [kind |-> kind, dir |-> dir, sessionId |-> sessionId, groups |-> groups,
   value |-> NoValue, allSessions |-> <<>>]
NoInput == Input("none", NoDirectory, <<>>, <<>>)
ValueInput(v) == [Input("value", NoDirectory, <<>>, <<>>) EXCEPT !.value = v]
FetchedInput(kind, all) ==
  [Input(kind, NoDirectory, <<>>, <<>>) EXCEPT !.allSessions = all]
FunctionInputs ==
  {Input("directory", d, <<>>, <<>>) : d \in {NoDirectory} \cup {Directory(s) : s \in Listings}}
    \cup {Input("sessionId", NoDirectory, id, <<>>) : id \in SessionIdInputs}
    \cup {Input("groups", NoDirectory, <<>>, gs) : gs \in GroupsInputs}
    \cup {ValueInput(v) : v \in ValueInputs}
    \cup {FetchedInput(k, all) : k \in {"validation", "validOnly"}, all \in FetchedInputs}

NoLoad == [error |-> "", sessionGroups |-> <<>>]
NoValidation == fetchSessionsWithValidation(<<>>)
Output(fn, numbers, header, loaded) ==
  [fn |-> fn, numbers |-> numbers, dateTimeHeader |-> header, loaded |-> loaded,
   valid |-> FALSE, validation |-> NoValidation, validSessions |-> <<>>]
NoOutput == Output("none", <<>>, "", NoLoad)

FunctionIdle == input = NoInput /\ output = NoOutput

OutputIdle ==
  /\ cacheBase = NoDirectory
  /\ manifests = [n \in Numbers |-> NoFile]
  /\ cacheFiles = [n \in Numbers |-> [id \in OutIds |-> Absent]]
  /\ cachedMeetings = <<>>
  /\ mi = 1
  /\ sessionGroupsOut = <<>>
  /\ ogi = 1
  /\ processedSessionsOut = <<>>
  /\ siteFiles = [n \in Numbers |-> NoFiles]
  /\ siteIndex = [n \in Numbers |-> NoIndex]
  /\ siteRoot = RepositorySite
  /\ rootIndex = NoRootIndex

\* ------------------------------------------- main(): the command line
\* yargs' result for the options of index.js 124-166: --summarize is a
\* number (0 when the option is absent: both are falsy), --preview a
\* string (empty when absent), the others are flags.
Arguments(summarize, outputFlag, build, pages, previewArg) ==
  [summarize |-> summarize, output |-> outputFlag, build |-> build, pages |-> pages,
   preview |-> previewArg]

\* index.js 185-191.
doSummarize == argv.summarize # 0
doOutput == argv.output
doBuild == argv.build \/ argv.pages
doPages == argv.pages
doPreview == argv.preview # <<>>

\* index.js 167-180: the check yargs runs on the parsed options.
CheckArgumentsPreviewWithOthers ==
  doSummarize \/ argv.output \/ argv.build \/ argv.pages \/ doPreview

CheckArguments ==
  /\ doSummarize \/ argv.output \/ argv.build \/ argv.pages \/ doPreview
  /\ ~(doPreview /\ (doSummarize \/ argv.output \/ argv.build \/ argv.pages))

\* index.js 196-215: summarize and preview need the model's API key.
NeedsApiKey == doSummarize \/ doPreview

\* index.js 219-455: the blocks of main's try in the order of the text;
\* the preview block ends with return.
StageOrder == <<"preview", "summarize", "output", "build">>
Requested(stage) ==
  IF stage = "preview" THEN doPreview
  ELSE IF stage = "summarize" THEN doSummarize
  ELSE IF stage = "output" THEN doOutput
  ELSE doBuild
StageIndex(stage) == CHOOSE k \in 1..Len(StageOrder) : StageOrder[k] = stage
StagesAhead ==
  IF stageLog = <<>> THEN 1..Len(StageOrder)
  ELSE IF stageLog[Len(stageLog)] = "preview" THEN {}
  ELSE (StageIndex(stageLog[Len(stageLog)]) + 1)..Len(StageOrder)

\* index.js 219-455: the first block ahead in the text whose flag is set.
NextStageReversed ==
  LET ahead == {k \in StagesAhead : Requested(StageOrder[k])}
  IN IF ahead = {} THEN "end"
     ELSE StageOrder[CHOOSE k \in ahead : \A j \in ahead : k >= j]

NextStage ==
  LET ahead == {k \in StagesAhead : Requested(StageOrder[k])}
  IN IF ahead = {} THEN "end"
     ELSE StageOrder[CHOOSE k \in ahead : \A j \in ahead : k <= j]

\* main() is between two blocks: the try was entered or a block has ended.
BetweenStages == pc \in {"main", "done"}

\* The directory _site and the commit prepared in gh-pages-repo.
NoBuild == [exists |-> FALSE, rootIndex |-> NoRootIndex, pages |-> FALSE]
OldBuild == [exists |-> TRUE, rootIndex |-> NoRootIndex, pages |-> FALSE]

\* The locals of the preview block.
NoPreview ==
  [matchingSessions |-> <<>>, i |-> 1, allMinutes |-> <<>>,
   fetched |-> {}, failed |-> {}, generated |-> {}, printed |-> FALSE, text |-> ""]

NoArguments == Arguments(0, FALSE, FALSE, FALSE, <<>>)

\* buildSite has not run: the process is in its starting directory.
PagesIdle == cwd = "." /\ ghPagesRepo = FALSE

\* generator.js 65-67: the module's variables when it is loaded. A client
\* variable holds null or the client object made from an API key.
NoClient == [isNull |-> TRUE, sdk |-> "", apiKey |-> ""]
Client(sdk, key) == [isNull |-> FALSE, sdk |-> sdk, apiKey |-> key]
NoModel == "null"
GeneratorLoaded ==
  /\ anthropic = NoClient
  /\ gemini = NoClient
  /\ currentModel = NoModel
  /\ calls = <<>>

\* No second invocation runs beside the one followed.
RaceIdle == procs = <<>>

\* main() is not followed option by option.
CliIdle ==
  /\ argv = NoArguments
  /\ apiKey = TRUE
  /\ stageLog = <<>>
  /\ siteBuild = NoBuild
  /\ preview = NoPreview
  /\ PagesIdle
  /\ GeneratorLoaded
  /\ RaceIdle

\* ------------------------------------------------------------------ Init
Init ==
  /\ sessions \in SeqsUpTo({Session(id) : id \in Ids}, MaxItems)
  /\ cache = [id \in Ids |-> Absent]
  /\ manifest = NoManifest
  /\ pc = "idle"
  /\ runs = 0
  /\ sessionsByName = <<>>
  /\ gi = 1 /\ si = 1
  /\ processedSessions = <<>>
  /\ sessionGroups = <<>>
  /\ anyNewMinutes = FALSE
  /\ minutes = ""
  /\ hit = {} /\ fetched = {} /\ failedFetch = {} /\ generated = {} /\ wrote = {}
  /\ writeCount = [id \in Ids |-> 0]
  /\ manifestAtStart = NoManifest
  /\ savedThisRun = FALSE
  /\ failure = "none"
  /\ OutputIdle
  /\ FunctionIdle
  /\ CliIdle

\* --------------------------------------------------------------- actions
\* index.js 305-332: --summarize starts; the session list is fetched and
\* grouped, the per-run variables are initialised.
SummarizeRun(n) ==
  /\ runs' = n
  /\ sessionsByName' = GroupByName(sessions)
  /\ gi' = 1 /\ si' = 1
  /\ processedSessions' = <<>>
  /\ sessionGroups' = <<>>
  /\ anyNewMinutes' = FALSE
  /\ minutes' = ""
  /\ hit' = {} /\ fetched' = {} /\ failedFetch' = {} /\ generated' = {} /\ wrote' = {}
  /\ manifestAtStart' = manifest
  /\ savedThisRun' = FALSE
  /\ failure' = "none"
  /\ pc' = IF Len(sessionsByName') = 0 THEN "passdone" ELSE "check"
  /\ UNCHANGED <<sessions, cache, manifest, writeCount>>
  /\ UNCHANGED <<outVars, fnVars>>

SummarizeBegins == SummarizeRun(runs + 1)

\* An invocation with --summarize alone, the first or a later one.
StartSummarize ==
  /\ pc \in Terminal
  /\ runs < MaxRuns
  /\ SummarizeBegins
  /\ UNCHANGED cliVars

\* index.js 312, 456-458: the session list cannot be fetched; main's catch
\* exits with status 1.
FetchSessionsThrows ==
  /\ runs' = runs + 1
  /\ sessionsByName' = <<>>
  /\ gi' = 1 /\ si' = 1
  /\ processedSessions' = <<>>
  /\ sessionGroups' = <<>>
  /\ anyNewMinutes' = FALSE
  /\ minutes' = ""
  /\ hit' = {} /\ fetched' = {} /\ failedFetch' = {} /\ generated' = {} /\ wrote' = {}
  /\ manifestAtStart' = manifest
  /\ savedThisRun' = FALSE
  /\ failure' = "source"
  /\ pc' = ExitOnError
  /\ UNCHANGED <<sessions, cache, manifest, writeCount>>
  /\ UNCHANGED <<outVars, fnVars>>

FetchSessionsFail ==
  /\ pc \in Terminal
  /\ runs < MaxRuns
  /\ FetchSessionsThrows
  /\ UNCHANGED cliVars

\* index.js 39-43 and 347-376: cache hit, the cached text is the result.
CacheHit ==
  /\ pc = "check"
  /\ cacheExists(CurSession.sessionId)
  /\ hit' = hit \cup {Pos}
  /\ FinishItem(HitResult(getCachedMinutes(CurSession.sessionId)))
  /\ UNCHANGED failure
  /\ UNCHANGED <<sessions, cache, manifest, runs, fetched, failedFetch,
                 generated, wrote, writeCount, runVars>>
  /\ UNCHANGED <<outVars, fnVars, cliVars>>

\* index.js 39, 46-49: cache miss, downloadTranscript is called.
CacheMiss ==
  /\ pc = "check"
  /\ ~cacheExists(CurSession.sessionId)
  /\ fetched' = fetched \cup Started(Pos)
  /\ pc' = "fetching"
  /\ UNCHANGED failure
  /\ UNCHANGED <<sessions, cache, manifest, runs, sessionsByName, gi, si,
                 processedSessions, sessionGroups, anyNewMinutes, minutes,
                 hit, failedFetch, generated, wrote, writeCount,
                 runVars>>
  /\ UNCHANGED <<outVars, fnVars, cliVars>>

\* index.js 50-53 and 353-358: the download throws; the item is skipped.
DownloadFails ==
  /\ pc = "fetching"
  /\ failedFetch' = failedFetch \cup {Pos}
  /\ FinishItem(NoTranscriptResult)
  /\ UNCHANGED failure
  /\ UNCHANGED <<sessions, cache, manifest, runs, hit, fetched,
                 generated, wrote, writeCount, runVars>>
  /\ UNCHANGED <<outVars, fnVars, cliVars>>

\* index.js 49, 56-57: the transcript arrives, generateMinutes is called.
DownloadSucceeds ==
  /\ pc = "fetching"
  /\ generated' = generated \cup {Pos}
  /\ pc' = "generating"
  /\ UNCHANGED failure
  /\ UNCHANGED <<sessions, cache, manifest, runs, sessionsByName, gi, si,
                 processedSessions, sessionGroups, anyNewMinutes, minutes,
                 hit, fetched, failedFetch, wrote, writeCount,
                 runVars>>
  /\ UNCHANGED <<outVars, fnVars, cliVars>>

\* index.js 55-59: the cache as generateSessionMinutes leaves it when
\* generateMinutes throws: the exception leaves the function before
\* saveCachedMinutes is reached, no file is created.
CacheWhenGenerateThrowsEmptyFile ==
  [cache EXCEPT ![CurSession.sessionId] = ""]

CacheWhenGenerateThrows == cache

\* index.js 57, 456-458: generateMinutes throws; nothing in
\* generateSessionMinutes or in the loops catches it, main's catch exits
\* with status 1.
GenerateFails ==
  /\ pc = "generating"
  /\ cache' = CacheWhenGenerateThrows
  /\ failure' = "generator"
  /\ pc' = ExitOnError
  /\ UNCHANGED <<sessions, manifest, runs, mainVars, logVars,
                 writeCount, runVars>>
  /\ UNCHANGED <<outVars, fnVars, cliVars>>

\* index.js 57-60, publisher.js 112-119: generateMinutes returns and
\* saveCachedMinutes opens the cache file for writing (created empty).
GenerateSucceeds ==
  /\ pc = "generating"
  /\ \E text \in GenOutputs(CurSession.sessionId) : minutes' = text
  /\ cache' = [cache EXCEPT ![CurSession.sessionId] = ""]
  /\ writeCount' = [writeCount EXCEPT ![CurSession.sessionId] = @ + 1]
  /\ pc' = "writing"
  /\ UNCHANGED failure
  /\ UNCHANGED <<sessions, manifest, runs, sessionsByName, gi, si,
                 processedSessions, sessionGroups, anyNewMinutes, logVars,
                 runVars>>
  /\ UNCHANGED <<outVars, fnVars, cliVars>>

\* publisher.js 119, index.js 61-63 and 347-376: the write completes.
CacheWriteDone ==
  /\ pc = "writing"
  /\ cache' = [cache EXCEPT ![CurSession.sessionId] = minutes]
  /\ wrote' = wrote \cup {Pos}
  /\ FinishItem(GeneratedResult(minutes))
  /\ UNCHANGED failure
  /\ UNCHANGED <<sessions, manifest, runs, hit, fetched, failedFetch,
                 generated, writeCount, runVars>>
  /\ UNCHANGED <<outVars, fnVars, cliVars>>

\* publisher.js 119, index.js 456-458: the write fails part-way; main's
\* catch exits with status 1.
CacheWriteFails ==
  /\ pc = "writing"
  /\ \E part \in Truncations(minutes) :
       cache' = [cache EXCEPT ![CurSession.sessionId] = part]
  /\ failure' = "cacheWrite"
  /\ pc' = ExitOnError
  /\ UNCHANGED <<sessions, manifest, runs, mainVars, logVars,
                 writeCount, runVars>>
  /\ UNCHANGED <<outVars, fnVars, cliVars>>

\* index.js 379-381, publisher.js 155-160: new minutes were generated;
\* saveCacheManifest opens .manifest.json with fs.writeFile, which
\* truncates the file in place.
SaveManifestBegin ==
  /\ pc = "passdone"
  /\ ShouldSaveManifest
  /\ manifest' = TornManifest
  /\ pc' = "savingManifest"
  /\ UNCHANGED failure
  /\ UNCHANGED <<sessions, cache, runs, mainVars, logVars, writeCount,
                 runVars>>
  /\ UNCHANGED <<outVars, fnVars, cliVars>>

\* publisher.js 160-171: the JSON text is completely written.
SaveManifestDone ==
  /\ pc = "savingManifest"
  /\ manifest' = ManifestFile(runs, sessionGroups)
  /\ savedThisRun' = TRUE
  /\ pc' = "done"
  /\ UNCHANGED failure
  /\ UNCHANGED <<sessions, cache, runs, mainVars, logVars, writeCount, manifestAtStart>>
  /\ UNCHANGED <<outVars, fnVars, cliVars>>

\* publisher.js 160, index.js 456-458: the manifest write fails part-way.
SaveManifestFails ==
  /\ pc = "savingManifest"
  /\ failure' = "manifestWrite"
  /\ pc' = ExitOnError
  /\ UNCHANGED <<sessions, cache, manifest, runs, mainVars, logVars,
                 writeCount, runVars>>
  /\ UNCHANGED <<outVars, fnVars, cliVars>>

\* index.js 383-385: no new minutes, the manifest update is skipped.
SkipManifest ==
  /\ pc = "passdone"
  /\ ~ShouldSaveManifest
  /\ pc' = "done"
  /\ UNCHANGED failure
  /\ UNCHANGED <<sessions, cache, manifest, runs, mainVars, logVars,
                 writeCount, runVars>>
  /\ UNCHANGED <<outVars, fnVars, cliVars>>

\* The process is terminated while a run is in progress. A cache file that
\* was being written keeps whatever prefix had reached it.
Terminate ==
  /\ pc \notin Terminal
  /\ IF pc = "writing"
     THEN \E part \in Truncations(minutes) :
            cache' = [cache EXCEPT ![CurSession.sessionId] = part]
     ELSE cache' = cache
  /\ pc' = "killed"
  /\ UNCHANGED failure
  /\ UNCHANGED <<sessions, manifest, runs, mainVars, logVars,
                 writeCount, runVars>>
  /\ UNCHANGED <<outVars, fnVars, cliVars>>

Next ==
  \/ StartSummarize
  \/ FetchSessionsFail
  \/ CacheHit
  \/ CacheMiss
  \/ DownloadFails
  \/ DownloadSucceeds
  \/ GenerateFails
  \/ GenerateSucceeds
  \/ CacheWriteDone
  \/ CacheWriteFails
  \/ SaveManifestBegin
  \/ SaveManifestDone
  \/ SaveManifestFails
  \/ SkipManifest
  \/ Terminate

Spec == Init /\ [][Next]_vars

\* ------------------------------------------- --summarize, run for ever
\* The operator invokes --summarize again whenever the invocation before
\* has ended, without end; `runs` counts the invocations up to MaxRuns and
\* stays there.  No invocation is killed and the session list can always
\* be fetched; downloads, generateMinutes and the two writes may fail.
RunAgain ==
  /\ pc \in Terminal
  /\ SummarizeRun(IF runs < MaxRuns THEN runs + 1 ELSE runs)
  /\ UNCHANGED cliVars

RetryNext ==
  \/ RunAgain
  \/ CacheHit
  \/ CacheMiss
  \/ DownloadFails
  \/ DownloadSucceeds
  \/ GenerateFails
  \/ GenerateSucceeds
  \/ CacheWriteDone
  \/ CacheWriteFails
  \/ SaveManifestBegin
  \/ SaveManifestDone
  \/ SaveManifestFails
  \/ SkipManifest

\* Node runs every awaited step of main to its end, and the operator
\* keeps invoking (weak fairness); a download, a generateMinutes call and
\* a write that are tried again and again succeed at some time (strong
\* fairness).
RetryFairness ==
  /\ WF_vars(RunAgain)
  /\ WF_vars(CacheHit)
  /\ WF_vars(CacheMiss)
  /\ SF_vars(DownloadSucceeds)
  /\ SF_vars(GenerateSucceeds)
  /\ SF_vars(CacheWriteDone)
  /\ WF_vars(SaveManifestBegin)
  /\ SF_vars(SaveManifestDone)
  /\ WF_vars(SkipManifest)

RetrySpec == Init /\ [][RetryNext]_vars /\ RetryFairness

\* ------------------------------------------------- the output stage: Init
\* No summarize stage runs: its variables stay as main() finds them.
PipelineIdle ==
  /\ sessions = <<>>
  /\ cache = [id \in Ids |-> Absent]
  /\ manifest = NoManifest
  /\ runs = 0
  /\ sessionsByName = <<>>
  /\ gi = 1 /\ si = 1
  /\ processedSessions = <<>>
  /\ sessionGroups = <<>>
  /\ anyNewMinutes = FALSE
  /\ minutes = ""
  /\ hit = {} /\ fetched = {} /\ failedFetch = {} /\ generated = {} /\ wrote = {}
  /\ writeCount = [id \in Ids |-> 0]
  /\ manifestAtStart = NoManifest
  /\ savedThisRun = FALSE

\* The cache as earlier summarize runs left it and an output area without
\* minutes; a manifest exists only in a meeting directory that exists.
OutputInit ==
  /\ PipelineIdle
  /\ FunctionIdle
  /\ CliIdle
  /\ pc = "idle"
  /\ failure = "none"
  /\ cacheBase \in {NoDirectory} \cup {Directory(s) : s \in Listings}
  /\ manifests \in {m \in [Numbers -> ManifestChoices] :
                      \A n \in Numbers : ~HasMeetingDir(cacheBase, n) => m[n] = NoFile}
  /\ \E files \in CacheChoices : cacheFiles = [n \in Numbers |-> files]
  /\ cachedMeetings = <<>>
  /\ mi = 1
  /\ sessionGroupsOut = <<>>
  /\ ogi = 1
  /\ processedSessionsOut = <<>>
  /\ siteFiles = [n \in Numbers |-> NoFiles]
  /\ siteIndex = [n \in Numbers |-> NoIndex]
  /\ siteRoot = RepositorySite
  /\ rootIndex = NoRootIndex

\* ---------------------------------------------- the output stage: actions
\* index.js 389-396: --output starts, for the first time or once more
\* after an earlier invocation has ended, and scans the cache for meetings.
OutputStart ==
  /\ pc \in {"idle", "done", "failed"}
  /\ cachedMeetings' = getCachedMeetingNumbers(cacheBase)
  /\ mi' = 1
  /\ sessionGroupsOut' = <<>>
  /\ ogi' = 1
  /\ processedSessionsOut' = <<>>
  /\ failure' = "none"
  /\ pc' = "outMeeting"
  /\ UNCHANGED <<cacheBase, manifests, cacheFiles, siteFiles, siteIndex,
                 siteRoot, rootIndex>>
  /\ UNCHANGED <<pipeVars, fnVars, cliVars>>

\* index.js 398-406: the next meeting; its manifest is loaded.
LoadManifest ==
  /\ pc = "outMeeting"
  /\ mi <= Len(cachedMeetings)
  /\ loadCacheManifestFile(manifests[cachedMeetings[mi]]).error = ""
  /\ sessionGroupsOut' = loadCacheManifestFile(manifests[cachedMeetings[mi]]).sessionGroups
  /\ processedSessionsOut' = <<>>
  /\ ogi' = 1
  /\ pc' = "outGroup"
  /\ UNCHANGED <<cacheBase, manifests, cacheFiles, cachedMeetings, mi,
                 siteFiles, siteIndex, siteRoot, rootIndex>>
  /\ UNCHANGED <<failure, pipeVars, fnVars, cliVars>>

\* index.js 403 and 456-458: loadCacheManifest throws; nothing between the
\* call and main's catch handles the exception.
LoadManifestThrows ==
  /\ pc = "outMeeting"
  /\ mi <= Len(cachedMeetings)
  /\ loadCacheManifestFile(manifests[cachedMeetings[mi]]).error # ""
  /\ failure' = loadCacheManifestFile(manifests[cachedMeetings[mi]]).error
  /\ pc' = ExitOnError
  /\ UNCHANGED <<outVars, pipeVars, fnVars, cliVars>>

\* index.js 407-435: one group of the manifest: read its members from the
\* cache, join them, write the group's two files.
AssembleGroup ==
  /\ pc = "outGroup"
  /\ ogi <= Len(sessionGroupsOut)
  /\ LET meetingNum == cachedMeetings[mi]
         group == sessionGroupsOut[ogi]
         content == combinedMinutes(allMinutes(meetingNum, group))
         dir == outputDir(meetingNum)
     IN /\ IF dir.root = "site/minutes"
           THEN /\ siteFiles' = [siteFiles EXCEPT ![dir.meeting] =
                                   saveMinutes(@, group.sessionName, content,
                                               recordingUrls(group))]
                /\ siteRoot' = MkdirMinutes(siteRoot)
                /\ cacheFiles' = cacheFiles
           ELSE /\ cacheFiles' = [cacheFiles EXCEPT ![dir.meeting] =
                                    (sanitizeSessionName(group.sessionName) :> content) @@ @]
                /\ UNCHANGED <<siteFiles, siteRoot>>
        /\ processedSessionsOut' = Append(processedSessionsOut, group.sessionName)
  /\ ogi' = ogi + 1
  /\ UNCHANGED <<cacheBase, manifests, cachedMeetings, mi,
                 sessionGroupsOut, siteIndex, rootIndex>>
  /\ UNCHANGED <<pc, failure, pipeVars, fnVars, cliVars>>

\* index.js 437-441: the meeting's index, then on to the next meeting.
GenerateIndex ==
  /\ pc = "outGroup"
  /\ ogi > Len(sessionGroupsOut)
  /\ siteIndex' = [siteIndex EXCEPT ![cachedMeetings[mi]] = generateIndex(processedSessionsOut)]
  /\ siteRoot' = MkdirMinutes(siteRoot)
  /\ mi' = mi + 1
  /\ pc' = "outMeeting"
  /\ UNCHANGED <<cacheBase, manifests, cacheFiles, cachedMeetings,
                 sessionGroupsOut, ogi, processedSessionsOut, siteFiles, rootIndex>>
  /\ UNCHANGED <<failure, pipeVars, fnVars, cliVars>>

\* index.js 443-449 and publisher.js 297-348: after the last meeting the
\* root index is written from a scan of `site`; "All done!".
GenerateRootIndex ==
  /\ pc = "outMeeting"
  /\ mi > Len(cachedMeetings)
  /\ rootIndex' = [exists |-> TRUE, meetings |-> RootIndexMeetings(siteRoot)]
  /\ pc' = "done"
  /\ UNCHANGED <<cacheBase, manifests, cacheFiles, cachedMeetings, mi,
                 sessionGroupsOut, ogi, processedSessionsOut, siteFiles,
                 siteIndex, siteRoot>>
  /\ UNCHANGED <<failure, pipeVars, fnVars, cliVars>>

OutputNext ==
  \/ OutputStart
  \/ LoadManifest
  \/ LoadManifestThrows
  \/ AssembleGroup
  \/ GenerateIndex
  \/ GenerateRootIndex

OutputSpec == OutputInit /\ [][OutputNext]_vars

\* ------------------------------------ --output again after --summarize
\* index.js 378-382, publisher.js 155-160: between two --output
\* invocations a --summarize invocation rewrites a meeting's manifest from
\* the Item Source's current list, which has changed: the session of group
\* "c" is gone and the session of group "a" is now named "b".
GroupsB ==
  << [sessionName |-> <<"B">>, sessions |-> <<MemberOf(N2, "u2"), MemberOf(N1, "u3")>>],
     [sessionName |-> <<"b">>, sessions |-> <<MemberOf(W2, "u4")>>] >>

SummarizeRewritesManifest ==
  /\ pc \in {"idle", "done", "failed"}
  /\ \E n \in Numbers :
       /\ manifests[n] = saveCacheManifest("t1", GroupsA)
       /\ manifests' = [manifests EXCEPT ![n] = saveCacheManifest("t2", GroupsB)]
  /\ pc' = "idle"
  /\ UNCHANGED <<cacheBase, cacheFiles, cachedMeetings, mi, sessionGroupsOut, ogi,
                 processedSessionsOut, siteFiles, siteIndex, siteRoot, rootIndex>>
  /\ UNCHANGED <<failure, pipeVars, fnVars, cliVars>>

OutputAgainNext ==
  \/ OutputStart
  \/ LoadManifest
  \/ LoadManifestThrows
  \/ AssembleGroup
  \/ GenerateIndex
  \/ GenerateRootIndex
  \/ SummarizeRewritesManifest

OutputAgainSpec == OutputInit /\ [][OutputAgainNext]_vars

FunctionInit ==
  /\ PipelineIdle
  /\ OutputIdle
  /\ CliIdle
  /\ pc = "idle"
  /\ failure = "none"
  /\ input \in FunctionInputs
  /\ output = NoOutput

\* publisher.js 58-77 applied to a listing of cache/output.
ApplyGetCachedMeetingNumbers ==
  /\ input.kind = "directory" /\ output.fn = "none"
  /\ output' = Output("getCachedMeetingNumbers", getCachedMeetingNumbers(input.dir), "", NoLoad)
  /\ UNCHANGED <<input, pc, failure, pipeVars, outVars, cliVars>>

\* publisher.js 305-330 applied to a listing of the scanned directory.
ApplyGenerateRootIndex ==
  /\ input.kind = "directory" /\ output.fn = "none"
  /\ output' = Output("generateRootIndex", RootIndexMeetings(input.dir), "", NoLoad)
  /\ UNCHANGED <<input, pc, failure, pipeVars, outVars, cliVars>>

\* index.js 72-111 applied to a session id.
ApplyParseSessionId ==
  /\ input.kind = "sessionId" /\ output.fn = "none"
  /\ output' = Output("parseSessionId", <<>>, parseSessionId(input.sessionId).dateTimeHeader, NoLoad)
  /\ UNCHANGED <<input, pc, failure, pipeVars, outVars, cliVars>>

\* publisher.js 155-186: saveCacheManifest, then loadCacheManifest of the
\* file it wrote.
ApplySaveThenLoadManifest ==
  /\ input.kind = "groups" /\ output.fn = "none"
  /\ output' = Output("loadCacheManifest", <<>>, "",
                      loadCacheManifestFile(saveCacheManifest("t1", input.groups)))
  /\ UNCHANGED <<input, pc, failure, pipeVars, outVars, cliVars>>

\* scraper.js 183-198 applied to a value.
ApplyIsValidSessionId ==
  /\ input.kind = "value" /\ output.fn = "none"
  /\ output' = [Output("isValidSessionId", <<>>, "", NoLoad)
                  EXCEPT !.valid = isValidSessionId(input.value)]
  /\ UNCHANGED <<input, pc, failure, pipeVars, outVars, cliVars>>

\* scraper.js 206-244 applied to what the fetch function returned.
ApplyFetchSessionsWithValidation ==
  /\ input.kind = "validation" /\ output.fn = "none"
  /\ output' = [Output("fetchSessionsWithValidation", <<>>, "", NoLoad)
                  EXCEPT !.validation = fetchSessionsWithValidation(input.allSessions)]
  /\ UNCHANGED <<input, pc, failure, pipeVars, outVars, cliVars>>

\* scraper.js 253-256 applied to what the fetch function returned.
ApplyFetchValidSessions ==
  /\ input.kind = "validOnly" /\ output.fn = "none"
  /\ output' = [Output("fetchValidSessions", <<>>, "", NoLoad)
                  EXCEPT !.validSessions = fetchValidSessions(input.allSessions)]
  /\ UNCHANGED <<input, pc, failure, pipeVars, outVars, cliVars>>

FunctionNext ==
  \/ ApplyGetCachedMeetingNumbers
  \/ ApplyGenerateRootIndex
  \/ ApplyParseSessionId
  \/ ApplySaveThenLoadManifest
  \/ ApplyIsValidSessionId
  \/ ApplyFetchSessionsWithValidation
  \/ ApplyFetchValidSessions

FunctionSpec == FunctionInit /\ [][FunctionNext]_vars

\* ==================================================================
\* One invocation of main() with any command line: index.js 113-460.
\* ==================================================================
\* The meeting --summarize and --preview name, whose session list is
\* `sessions` and whose cache directory the summarize stage keeps in
\* `cache` and `manifest`.
SummarizedMeeting == 12

\* The characters of the session ids and of the (one-character) session
\* names of the summarize stage: the ids of the two X sessions have the
\* form of Meetecho's ids, the session parameter of Y's link is B1.
IdChars ==
  [id \in Ids |->
     IF id = "A1" THEN IETF \o <<"1", "2", "-", "X", "-">> \o Date1 \o <<"-">> \o Time1
     ELSE IF id = "A2" THEN IETF \o <<"1", "2", "-", "X", "-">> \o Date2 \o <<"-">> \o Time1
     ELSE <<"B", "1">>]
NameChars(name) == <<name>>

\* publisher.js 50-52, 85-87, 112-119, 155-160: the directory
\* cache/output/ietf<N> of the summarized meeting as the output stage finds
\* it: it exists once a cache file or the manifest was written (mkdir),
\* and holds .manifest.json and one file per cached session id.
MeetingDirCreated ==
  manifest.state # "ENOENT" \/ \E id \in Ids : cache[id] # Absent
WithMeetingDir(dir, n) ==
  IF HasMeetingDir(dir, n) THEN dir
  ELSE Directory(Append(dir.entries, Entry(MeetingDirName(n), TRUE)))
CacheOutputBase(base) ==
  IF MeetingDirCreated THEN WithMeetingDir(base, SummarizedMeeting) ELSE base
ManifestGroupsChars(groups) ==
  [k \in 1..Len(groups) |->
     [sessionName |-> NameChars(groups[k].sessionName),
      sessions |-> [j \in 1..Len(groups[k].sessions) |->
                      MemberOf(IdChars[groups[k].sessions[j].sessionId],
                               groups[k].sessions[j].recordingUrl)]]]
ManifestFileOf(m) ==
  IF m.state = "ENOENT" THEN NoFile
  ELSE IF m.state = "torn" THEN File(<<>>)
  ELSE saveCacheManifest("t1", ManifestGroupsChars(m.sessionGroups))
CacheFilesOf(c) ==
  [chars \in {IdChars[id] : id \in Ids} |->
     c[CHOOSE id \in Ids : IdChars[id] = chars]]
CacheOutputManifests(files) ==
  [files EXCEPT ![SummarizedMeeting] = ManifestFileOf(manifest)]
CacheOutputFiles(files) ==
  [files EXCEPT ![SummarizedMeeting] = CacheFilesOf(cache)]

\* ------------------------------------------------------ main(): Init
\* Command lines: every combination of the actions (--build and --pages
\* not both), with or without a --preview argument.
PreviewArguments ==
  {<<>>, <<"1", "2", ":", "x">>, <<"1", "2", ":", "Z">>, <<"1", "2">>,
   <<"x", ":", "X">>}
ArgvChoices ==
  {Arguments(n, o, b, g, v) :
     n \in {0, SummarizedMeeting}, o \in BOOLEAN, b \in BOOLEAN, g \in BOOLEAN,
     v \in PreviewArguments} \ {a \in [summarize : {0, SummarizedMeeting}, output : BOOLEAN,
                                         build : BOOLEAN, pages : BOOLEAN,
                                         preview : PreviewArguments] : a.build /\ a.pages}

\* The session list of the meeting: no session id twice.
MainSessionLists ==
  {ss \in SeqsUpTo({Session(id) : id \in Ids}, MaxItems) :
     \A i, j \in 1..Len(ss) : i # j => ss[i] # ss[j]}

\* What earlier invocations left of the summarized meeting: nothing, or
\* the session A1 cached and listed in the manifest.
PriorRuns ==
  {[cache |-> [id \in Ids |-> Absent], manifest |-> NoManifest],
   [cache |-> [id \in Ids |-> IF id = "A1" THEN TextOf[id] ELSE Absent],
    manifest |-> ManifestFile(0, <<[sessionName |-> NameOf["A1"],
                                    sessions |-> <<[sessionId |-> "A1",
                                                    recordingUrl |-> UrlOf["A1"]]>>]>>)]}

\* What they left of other meetings: no cache at all, the directory ietf3
\* without a manifest, or the complete directory ietf101.
OtherMeetings ==
  {[base |-> NoDirectory, manifests |-> [n \in Numbers |-> NoFile]],
   [base |-> Directory(<<Entry(MeetingDirName(3), TRUE)>>),
    manifests |-> [n \in Numbers |-> NoFile]],
   [base |-> Directory(<<Entry(MeetingDirName(101), TRUE)>>),
    manifests |-> [n \in Numbers |-> IF n = 101 THEN saveCacheManifest("t1", GroupsA)
                                     ELSE NoFile]]}
OtherCacheFiles ==
  [id \in OutIds |-> IF id = W1 THEN "three" ELSE IF id = W2 THEN "four"
                     ELSE IF id = N1 THEN "one" ELSE "two"]

MainInit ==
  /\ FunctionIdle
  /\ pc = "start"
  /\ failure = "none"
  /\ runs = 0
  /\ sessions \in MainSessionLists
  /\ \E prior \in PriorRuns :
       /\ cache = prior.cache
       /\ manifest = prior.manifest
       /\ manifestAtStart = prior.manifest
  /\ writeCount = [id \in Ids |-> IF cache[id] # Absent THEN 1 ELSE 0]
  /\ sessionsByName = <<>>
  /\ gi = 1 /\ si = 1
  /\ processedSessions = <<>>
  /\ sessionGroups = <<>>
  /\ anyNewMinutes = FALSE
  /\ minutes = ""
  /\ hit = {} /\ fetched = {} /\ failedFetch = {} /\ generated = {} /\ wrote = {}
  /\ savedThisRun = FALSE
  /\ \E other \in OtherMeetings :
       /\ cacheBase = CacheOutputBase(other.base)
       /\ manifests = CacheOutputManifests(other.manifests)
  /\ cacheFiles = CacheOutputFiles([n \in Numbers |-> OtherCacheFiles])
  /\ cachedMeetings = <<>>
  /\ mi = 1
  /\ sessionGroupsOut = <<>>
  /\ ogi = 1
  /\ processedSessionsOut = <<>>
  /\ siteFiles = [n \in Numbers |-> NoFiles]
  /\ siteIndex = [n \in Numbers |-> NoIndex]
  /\ siteRoot = RepositorySite
  /\ rootIndex = NoRootIndex
  /\ argv \in ArgvChoices
  /\ apiKey \in BOOLEAN
  /\ stageLog = <<>>
  /\ siteBuild \in {NoBuild, OldBuild}
  /\ preview = NoPreview
  /\ cwd = "."
  /\ ghPagesRepo \in BOOLEAN
  /\ GeneratorLoaded
  /\ RaceIdle

\* --------------------------------------------------- main(): actions
\* index.js 167-183: the check of the options fails; yargs reports the
\* error and exits with status 1 before anything else runs.
RejectArguments ==
  /\ pc = "start"
  /\ ~CheckArguments
  /\ failure' = "usage"
  /\ pc' = ExitOnError
  /\ UNCHANGED <<pipeVars, outVars, fnVars, cliVars>>

\* index.js 196-211: the API key is missing: process.exit(1).
MissingApiKey ==
  /\ pc = "start"
  /\ CheckArguments
  /\ NeedsApiKey /\ ~apiKey
  /\ failure' = "apiKey"
  /\ pc' = ExitOnError
  /\ UNCHANGED <<pipeVars, outVars, fnVars, cliVars>>

\* index.js 183-217: the options are accepted, main enters its try block.
EnterTry ==
  /\ pc = "start"
  /\ CheckArguments
  /\ NeedsApiKey => apiKey
  /\ pc' = "main"
  /\ UNCHANGED <<failure, pipeVars, outVars, fnVars, cliVars>>

\* index.js 219-247: the preview block; its argument is not
\* meeting:session-name, or the meeting is not a number.
PreviewParts == Split(argv.preview, ":")
PreviewArgumentOk == Len(PreviewParts) = 2 /\ parseInt(PreviewParts[1]) # NaN
IsPreviewed(session) ==
  toLowerCase(NameChars(session.sessionName)) = toLowerCase(PreviewParts[2])

PreviewBadArgument ==
  /\ BetweenStages /\ NextStage = "preview"
  /\ ~PreviewArgumentOk
  /\ stageLog' = Append(stageLog, "preview")
  /\ failure' = "previewFormat"
  /\ pc' = ExitOnError
  /\ UNCHANGED <<pipeVars, outVars, fnVars, argv, apiKey, otherVars, siteBuild, preview>>

\* index.js 246: the session list cannot be fetched.
PreviewSourceFails ==
  /\ BetweenStages /\ NextStage = "preview"
  /\ PreviewArgumentOk
  /\ stageLog' = Append(stageLog, "preview")
  /\ failure' = "source"
  /\ pc' = ExitOnError
  /\ UNCHANGED <<pipeVars, outVars, fnVars, argv, apiKey, otherVars, siteBuild, preview>>

\* index.js 250-258: no session of the list has the name.
PreviewNoMatch ==
  /\ BetweenStages /\ NextStage = "preview"
  /\ PreviewArgumentOk
  /\ SelectSeq(sessions, IsPreviewed) = <<>>
  /\ stageLog' = Append(stageLog, "preview")
  /\ failure' = "noMatch"
  /\ pc' = ExitOnError
  /\ UNCHANGED <<pipeVars, outVars, fnVars, argv, apiKey, otherVars, siteBuild, preview>>

\* index.js 250-266: the matching sessions; the loop over them starts.
PreviewStart ==
  /\ BetweenStages /\ NextStage = "preview"
  /\ PreviewArgumentOk
  /\ SelectSeq(sessions, IsPreviewed) # <<>>
  /\ stageLog' = Append(stageLog, "preview")
  /\ preview' = [NoPreview EXCEPT !.matchingSessions = SelectSeq(sessions, IsPreviewed)]
  /\ pc' = "previewFetch"
  /\ UNCHANGED <<failure, pipeVars, outVars, fnVars, argv, apiKey, otherVars, siteBuild>>

\* index.js 272-277: downloadTranscript throws, the session is skipped.
PreviewDownloadFails ==
  /\ pc = "previewFetch"
  /\ preview.i <= Len(preview.matchingSessions)
  /\ preview' = [preview EXCEPT !.fetched = @ \cup {preview.i},
                                !.failed = @ \cup {preview.i},
                                !.i = @ + 1]
  /\ UNCHANGED <<pc, failure, pipeVars, outVars, fnVars, argv, apiKey, otherVars, stageLog,
                 siteBuild>>

\* index.js 273, 281: the transcript arrives, generateMinutes is called.
PreviewDownloadSucceeds ==
  /\ pc = "previewFetch"
  /\ preview.i <= Len(preview.matchingSessions)
  /\ preview' = [preview EXCEPT !.fetched = @ \cup {preview.i},
                                !.generated = @ \cup {preview.i}]
  /\ pc' = "previewGenerate"
  /\ UNCHANGED <<failure, pipeVars, outVars, fnVars, argv, apiKey, otherVars, stageLog,
                 siteBuild>>

\* index.js 281, 456-458: generateMinutes throws; main's catch exits with
\* status 1, nothing is printed.
PreviewGenerateFails ==
  /\ pc = "previewGenerate"
  /\ failure' = "generator"
  /\ pc' = ExitOnError
  /\ UNCHANGED <<pipeVars, outVars, fnVars, cliVars>>

\* index.js 281-291: the minutes behind their date/time header are kept.
PreviewGenerateSucceeds ==
  /\ pc = "previewGenerate"
  /\ LET session == preview.matchingSessions[preview.i]
     IN \E text \in GenOutputs(session.sessionId) :
          preview' = [preview EXCEPT
                        !.allMinutes =
                          Append(@, parseSessionId(IdChars[session.sessionId]).dateTimeHeader
                                      \o text),
                        !.i = @ + 1]
  /\ pc' = "previewFetch"
  /\ UNCHANGED <<failure, pipeVars, outVars, fnVars, argv, apiKey, otherVars, stageLog,
                 siteBuild>>

\* index.js 294-301: all minutes are printed; main returns.
PreviewPrint ==
  /\ pc = "previewFetch"
  /\ preview.i > Len(preview.matchingSessions)
  /\ preview' = [preview EXCEPT !.printed = TRUE,
                                !.text = JoinText(preview.allMinutes, "\n\n---\n\n")]
  /\ pc' = "done"
  /\ UNCHANGED <<failure, pipeVars, outVars, fnVars, argv, apiKey, otherVars, stageLog,
                 siteBuild>>

\* index.js 305-332: the summarize block is entered.
EnterSummarize ==
  /\ BetweenStages /\ NextStage = "summarize"
  /\ SummarizeBegins
  /\ stageLog' = Append(stageLog, "summarize")
  /\ UNCHANGED <<argv, apiKey, otherVars, siteBuild, preview>>

\* index.js 312: the session list cannot be fetched.
SummarizeSourceFails ==
  /\ BetweenStages /\ NextStage = "summarize"
  /\ FetchSessionsThrows
  /\ stageLog' = Append(stageLog, "summarize")
  /\ UNCHANGED <<argv, apiKey, otherVars, siteBuild, preview>>

\* index.js 389-396: the output block is entered and scans cache/output,
\* which holds what the summarize stage of this invocation wrote.
EnterOutput ==
  /\ BetweenStages /\ NextStage = "output"
  /\ cacheBase' = CacheOutputBase(cacheBase)
  /\ manifests' = CacheOutputManifests(manifests)
  /\ cacheFiles' = CacheOutputFiles(cacheFiles)
  /\ cachedMeetings' = getCachedMeetingNumbers(cacheBase')
  /\ mi' = 1
  /\ sessionGroupsOut' = <<>>
  /\ ogi' = 1
  /\ processedSessionsOut' = <<>>
  /\ stageLog' = Append(stageLog, "output")
  /\ pc' = "outMeeting"
  /\ UNCHANGED <<failure, siteFiles, siteIndex, siteRoot, rootIndex>>
  /\ UNCHANGED <<pipeVars, fnVars, argv, apiKey, otherVars, siteBuild, preview>>

\* index.js 452-454, 471-478: the build block is entered; buildSite
\* removes _site.
EnterBuild ==
  /\ BetweenStages /\ NextStage = "build"
  /\ siteBuild' = NoBuild
  /\ stageLog' = Append(stageLog, "build")
  /\ pc' = "eleventy"
  /\ UNCHANGED <<failure, pipeVars, outVars, fnVars, argv, apiKey, otherVars, preview>>

\* index.js 481-484: eleventy builds _site from site.
EleventySucceeds ==
  /\ pc = "eleventy"
  /\ siteBuild' = [exists |-> TRUE, rootIndex |-> rootIndex, pages |-> FALSE]
  /\ pc' = IF doPages THEN "pages" ELSE "done"
  /\ UNCHANGED <<failure, pipeVars, outVars, fnVars, argv, apiKey, otherVars, stageLog, preview>>

\* index.js 481, 550-553, 456-458: execSync throws; buildSite rethrows.
EleventyFails ==
  /\ pc = "eleventy"
  /\ failure' = "build"
  /\ pc' = ExitOnError
  /\ UNCHANGED <<pipeVars, outVars, fnVars, cliVars>>

\* index.js 486, 539-548: the catch of the preparation removes
\* "gh-pages-repo", a relative path that is resolved against the working
\* directory the process has when the exception arrives (force: true, a
\* missing path is no error); then the error is rethrown.
ghPagesDir == "gh-pages-repo"
CleanupGhPages(dirNow, repoExists) ==
  IF dirNow = "." THEN FALSE ELSE repoExists

\* index.js 490-503: the old gh-pages-repo is removed and the gh-pages
\* branch is cloned.
PagesCloneSucceeds ==
  /\ pc = "pages"
  /\ ghPagesRepo' = TRUE
  /\ pc' = "reset"
  /\ UNCHANGED <<failure, cwd, pipeVars, outVars, fnVars, argv, apiKey, genVars,
                 raceVars, stageLog, siteBuild, preview>>

\* index.js 501-503, 539-548, 456-458: git clone fails.
PagesCloneFails ==
  /\ pc = "pages"
  /\ ghPagesRepo' = CleanupGhPages(cwd, FALSE)
  /\ failure' = "pages"
  /\ pc' = ExitOnError
  /\ UNCHANGED <<cwd, pipeVars, outVars, fnVars, argv, apiKey, genVars,
                 raceVars, stageLog, siteBuild, preview>>

\* index.js 505-509: chdir into the clone, git reset --hard baseline,
\* chdir("..").
PagesResetSucceeds ==
  /\ pc = "reset"
  /\ cwd' = "."
  /\ pc' = "copy"
  /\ UNCHANGED <<failure, ghPagesRepo, pipeVars, outVars, fnVars, argv, apiKey,
                 genVars, raceVars, stageLog, siteBuild, preview>>

\* index.js 507-508, 539-548: git reset throws after process.chdir(ghPagesDir);
\* chdir("..") is skipped.
PagesResetFails ==
  /\ pc = "reset"
  /\ cwd' = ghPagesDir
  /\ ghPagesRepo' = CleanupGhPages(cwd', ghPagesRepo)
  /\ failure' = "pages"
  /\ pc' = ExitOnError
  /\ UNCHANGED <<pipeVars, outVars, fnVars, argv, apiKey, genVars,
                 raceVars, stageLog, siteBuild, preview>>

\* index.js 511-520: docs is cleared and _site is copied into it.
PagesCopySucceeds ==
  /\ pc = "copy"
  /\ pc' = "commit"
  /\ UNCHANGED <<failure, pipeVars, outVars, fnVars, cliVars>>

\* index.js 513-519, 539-548: fs.rm, fs.mkdir or copyDir throws.
PagesCopyFails ==
  /\ pc = "copy"
  /\ ghPagesRepo' = CleanupGhPages(cwd, ghPagesRepo)
  /\ failure' = "pages"
  /\ pc' = ExitOnError
  /\ UNCHANGED <<cwd, pipeVars, outVars, fnVars, argv, apiKey, genVars,
                 raceVars, stageLog, siteBuild, preview>>

\* index.js 522-538: chdir into the clone, git add of every copied file,
\* git commit, chdir(".."): the gh-pages commit is prepared from _site.
PagesPrepared ==
  /\ pc = "commit"
  /\ cwd' = "."
  /\ siteBuild' = [siteBuild EXCEPT !.pages = TRUE]
  /\ pc' = "done"
  /\ UNCHANGED <<failure, ghPagesRepo, pipeVars, outVars, fnVars, argv, apiKey,
                 genVars, raceVars, stageLog, preview>>

\* index.js 524-535, 539-548: git add or git commit throws after
\* process.chdir(ghPagesDir); chdir("..") is skipped.
PagesCommitFails ==
  /\ pc = "commit"
  /\ cwd' = ghPagesDir
  /\ ghPagesRepo' = CleanupGhPages(cwd', ghPagesRepo)
  /\ failure' = "pages"
  /\ pc' = ExitOnError
  /\ UNCHANGED <<pipeVars, outVars, fnVars, argv, apiKey, genVars,
                 raceVars, stageLog, siteBuild, preview>>

MainNext ==
  \/ RejectArguments
  \/ MissingApiKey
  \/ EnterTry
  \/ PreviewBadArgument
  \/ PreviewSourceFails
  \/ PreviewNoMatch
  \/ PreviewStart
  \/ PreviewDownloadFails
  \/ PreviewDownloadSucceeds
  \/ PreviewGenerateFails
  \/ PreviewGenerateSucceeds
  \/ PreviewPrint
  \/ EnterSummarize
  \/ SummarizeSourceFails
  \/ CacheHit
  \/ CacheMiss
  \/ DownloadFails
  \/ DownloadSucceeds
  \/ GenerateFails
  \/ GenerateSucceeds
  \/ CacheWriteDone
  \/ CacheWriteFails
  \/ SaveManifestBegin
  \/ SaveManifestDone
  \/ SaveManifestFails
  \/ SkipManifest
  \/ EnterOutput
  \/ LoadManifest
  \/ LoadManifestThrows
  \/ AssembleGroup
  \/ GenerateIndex
  \/ GenerateRootIndex
  \/ EnterBuild
  \/ EleventySucceeds
  \/ EleventyFails
  \/ PagesCloneSucceeds
  \/ PagesCloneFails
  \/ PagesResetSucceeds
  \/ PagesResetFails
  \/ PagesCopySucceeds
  \/ PagesCopyFails
  \/ PagesPrepared
  \/ PagesCommitFails

MainSpec == MainInit /\ [][MainNext]_vars

\* ---------------------------------------------------- auxiliary operators
\* The pass over all groups of the current run has run to its end.
PassCompleted == runs >= 1 /\ gi > Len(sessionsByName)

\* The session at loop position p = <<group, index>>.
SessionAt(p) == sessionsByName[p[1]].sessionGroup[p[2]]

\* The session at loop position p ended with non-empty minutes in this run.
Usable(p) == /\ p \in hit \cup wrote
             /\ cache[SessionAt(p).sessionId] \notin {Absent, ""}

\* The indices in 1..n that satisfy Keep, in ascending order.
Pick(n, Keep(_)) ==
  LET S == {i \in 1..n : Keep(i)}
  IN [k \in 1..Cardinality(S) |->
        CHOOSE i \in S : Cardinality({j \in S : j <= i}) = k]

Member(s) == [sessionId |-> s.sessionId, recordingUrl |-> s.recordingUrl]

\* Loop position of the i-th session of the Item Source's list: its group
\* is numbered by the first occurrences of names, its index counts the
\* sessions of the same name up to i.
FirstOcc(i) == \A j \in 1..(i - 1) : sessions[j].sessionName # sessions[i].sessionName
PosOfIndex(i) ==
  LET n == sessions[i].sessionName
      f == CHOOSE j \in 1..i : sessions[j].sessionName = n /\ FirstOcc(j)
  IN << Cardinality({j \in 1..f : FirstOcc(j)}),
        Cardinality({j \in 1..i : sessions[j].sessionName = n}) >>

\* The groups a completed pass must have collected, computed from the
\* Item Source's list alone.
ExpectedGroups ==
  LET MembersOf(n) ==
        LET UsableNamed(i) == sessions[i].sessionName = n /\ Usable(PosOfIndex(i))
            idx == Pick(Len(sessions), UsableNamed)
        IN [k \in 1..Len(idx) |-> Member(sessions[idx[k]])]
      NonEmptyFirst(i) == FirstOcc(i) /\ Len(MembersOf(sessions[i].sessionName)) > 0
      kept == Pick(Len(sessions), NonEmptyFirst)
  IN [k \in 1..Len(kept) |->
        [sessionName |-> sessions[kept[k]].sessionName,
         sessions |-> MembersOf(sessions[kept[k]].sessionName)]]

\* ----------------------------------------------------------------- claims

\* C1: a session whose cache file exists when the loop reaches it is a
\* cache hit: downloadTranscript and generateMinutes are not called for it
\* and nothing is written for it, and a run is marked as having new minutes
\* only by a session that was generated and cached in that run.
C1_CacheHitSkipsFetchAndGenerate ==
  /\ hit \cap (fetched \cup generated \cup wrote) = {}
  /\ anyNewMinutes => wrote # {}

C1_Witness == pc = "done" /\ hit # {} /\ ~anyNewMinutes /\ runs = 2

\* C2: over sequential runs saveCachedMinutes is called at most once per
\* session id, and a cache file that exists and is not being written at
\* this moment keeps its content.
C2_WriteOnce ==
  [][\A id \in Ids :
       /\ writeCount'[id] <= 1
       /\ (cache[id] # Absent /\ ~(pc = "writing" /\ CurSession.sessionId = id))
            => cache'[id] = cache[id]]_vars

C2_Witness ==
  /\ runs = 2 /\ pc = "done" /\ hit # {}
  /\ \E id \in Ids : writeCount[id] = 1 /\ cache[id] = TextOf[id]

\* The previous run ran to its end and saved the manifest.
PreviousRunCompleted ==
  runs >= 2 /\ manifestAtStart.state = "ok" /\ manifestAtStart.generated = runs - 1

\* C3 as stated: the second of two runs in a row over the same session
\* list (the first having run to its end) calls generateMinutes for no
\* session and ends with the manifest it started with.
C3_Original ==
  PreviousRunCompleted
    => (generated = {} /\ (pc \in Terminal => manifest = manifestAtStart))

\* C3 amended: a run in which every session is a cache hit or has no
\* transcript to fetch calls generateMinutes for no session and leaves the
\* manifest file (groups, members, generation time) as it was.
C3_Idempotent ==
  (runs >= 1 /\ fetched \subseteq failedFetch)
    => (generated = {} /\ wrote = {} /\ manifest = manifestAtStart)

C3_Witness ==
  /\ PreviousRunCompleted /\ pc = "done"
  /\ hit # {} /\ failedFetch # {} /\ fetched \subseteq failedFetch
  /\ manifest = manifestAtStart

\* C4: the manifest is saved in a run only if minutes were generated and
\* cached in it; a run that reaches its end has saved it exactly if they
\* were; a run of cache hits and skipped sessions leaves the file alone.
C4_ManifestSavedIffNewMinutes ==
  /\ savedThisRun => wrote # {}
  /\ pc = "done" => (savedThisRun <=> wrote # {})
  /\ (runs >= 1 /\ wrote = {}) => manifest = manifestAtStart

C4_Witness == pc = "done" /\ savedThisRun /\ hit # {} /\ failedFetch # {}

\* C5: a failure of generateMinutes for one session does not abort the
\* run: from waiting for the generator the run never goes to its failed
\* exit.
C5_GeneratorFailureDoesNotAbort ==
  [][pc = "generating" => pc' # "failed"]_vars

\* C6: a failed transcript download ends only that session: the run goes
\* on, and after the pass a group with further usable sessions holds
\* exactly those, while a group whose every download failed is in neither
\* the collected groups nor the manifest file.
C6_AfterPass ==
  (PassCompleted /\ pc \in {"passdone", "savingManifest", "done"}) =>
    \A k \in 1..Len(sessionsByName) :
      LET n == sessionsByName[k].sessionName
          len == Len(sessionsByName[k].sessionGroup)
          UsableAt(i) == Usable(<<k, i>>)
          idx == Pick(len, UsableAt)
          want == [j \in 1..Len(idx) |-> Member(SessionAt(<<k, idx[j]>>))]
          InGroups(gs) == \E g \in 1..Len(gs) : gs[g].sessionName = n
      IN /\ (\A i \in 1..len : <<k, i>> \in failedFetch) =>
              (~InGroups(sessionGroups) /\ ~InGroups(manifest.sessionGroups))
         /\ (\E i \in 1..len : <<k, i>> \in failedFetch) =>
              \A g \in 1..Len(sessionGroups) :
                sessionGroups[g].sessionName = n => sessionGroups[g].sessions = want
         /\ (Len(want) > 0) => InGroups(sessionGroups)
         /\ savedThisRun => manifest.sessionGroups = sessionGroups

C7_GroupingCorrect ==
  /\ (PassCompleted /\ pc \in {"passdone", "savingManifest", "done"})
       => sessionGroups = ExpectedGroups
  /\ savedThisRun => manifest.sessionGroups = ExpectedGroups

C7_Witness ==
  /\ savedThisRun
  /\ sessions = <<Session("A1"), Session("A2"), Session("B1")>>
  /\ manifest.sessionGroups =
       <<[sessionName |-> "X",
          sessions |-> <<Member(Session("A1")), Member(Session("A2"))>>],
         [sessionName |-> "Y", sessions |-> <<Member(Session("B1"))>>]>>

\* C8: every group of a complete manifest file has a member, and the cache
\* file of every member exists and is not empty.
C8_ManifestGroupsNonEmpty ==
  manifest.state = "ok" =>
    \A g \in 1..Len(manifest.sessionGroups) :
      LET ms == manifest.sessionGroups[g].sessions
      IN /\ Len(ms) >= 1
         /\ \A m \in 1..Len(ms) : cache[ms[m].sessionId] \notin {Absent, ""}

C8_Witness ==
  /\ savedThisRun /\ failedFetch # {} /\ hit # {}
  /\ Len(manifest.sessionGroups) = 1
  /\ \E id \in Ids : cache[id] = ""

\* C9: as long as the pass over all groups is not complete, also when the
\* run has failed or was terminated in it, the manifest file is the one the
\* run started with and the cache files written in the run exist.
C9_PartialRunKeepsManifest ==
  (runs >= 1 /\ ~PassCompleted) =>
    /\ manifest = manifestAtStart
    /\ \A p \in wrote : cache[SessionAt(p).sessionId] # Absent

C9_Witness ==
  /\ pc \in {"failed", "killed"} /\ ~PassCompleted
  /\ wrote # {} /\ manifest.state = "ok"

\* C10: a reader of the manifest never observes a truncated or partially
\* written file: once a manifest has been saved, loadCacheManifest, called
\* at any moment, returns the groups of a complete manifest.
C10_ManifestReplacedAtomically ==
  (manifestAtStart.state = "ok" \/ savedThisRun) => loadCacheManifest.error = ""

\* C16: sessions are processed one at a time: the only session that was
\* started (looked up or fetched) and is not finished (hit, skipped or
\* cached) is the one the loops are at, so at most one download, generation
\* or cache write is in flight and every earlier session is finished.
C16_OneAtATime ==
  runs >= 1 =>
    LET unfinished == (hit \cup fetched) \ (hit \cup failedFetch \cup wrote)
    IN /\ Cardinality(unfinished) <= 1
       /\ \A p \in unfinished : InPass /\ p = Pos

C16_Witness ==
  /\ pc = "generating" /\ Pos = <<2, 1>>
  /\ wrote # {} /\ failedFetch # {}

\* C17: the process exits with status 1 only after a cache write or a
\* manifest write failed (a failure to obtain the session list at all is
\* left aside), never because of the sessions' content or generation.
C17_ExitNonZeroOnlyOnPersistence ==
  pc = "failed" => failure \in {"cacheWrite", "manifestWrite", "source"}

\* C18: a failed cache write or manifest write ends the invocation with
\* status 1: it never reaches its successful end, the manifest is not
\* saved, and after a failed cache write the manifest file is untouched
\* and no session after the failing one was started.
C18_PersistenceFailureFatal ==
  /\ failure \in {"cacheWrite", "manifestWrite"} => (pc = "failed" /\ ~savedThisRun)
  /\ failure = "cacheWrite" =>
       /\ manifest = manifestAtStart
       /\ InPass /\ Pos \notin wrote
       /\ \A p \in hit \cup fetched :
            p[1] < gi \/ (p[1] = gi /\ p[2] <= si)

C18_Witness ==
  /\ failure = "cacheWrite" /\ pc = "failed"
  /\ wrote # {} /\ si < Len(CurGroup.sessionGroup)

\* ------------------------------------------- output stage: what to expect
\* The groups stored in a meeting's manifest file.
StoredGroups(n) ==
  IF manifests[n] = saveCacheManifest("t1", GroupsA) THEN GroupsA ELSE <<>>

\* The date/time header of each session id of the output stage.
ExpectedHeader(id) ==
  IF id = W1 THEN "**Session Date/Time:** 21 Jul 2025 07:30\n\n"
  ELSE IF id = W2 THEN "**Session Date/Time:** 22 Jul 2025 07:30\n\n"
  ELSE ""

\* The file name of each group name of the output stage.
ExpectedFileName(name) ==
  IF name = <<"B">> THEN <<"b">> ELSE name

\* Member i of a group as it must appear in the combined text.
ExpectedPart(n, group, i) ==
  ExpectedHeader(group.sessions[i].sessionId) \o cacheFiles[n][group.sessions[i].sessionId]

RECURSIVE ExpectedCombinedFrom(_, _, _)
ExpectedCombinedFrom(n, group, i) ==
  IF i > Len(group.sessions) THEN ""
  ELSE (IF i > 1 THEN "\n\n---\n\n" ELSE "") \o ExpectedPart(n, group, i)
         \o ExpectedCombinedFrom(n, group, i + 1)

\* The meetings the output stage has to assemble.
MeetingsInCache == {n \in Numbers : HasMeetingDir(cacheBase, n)}

\* C11: a meeting directory without a manifest file is skipped by the
\* output stage: the stage never ends with exit status 1 because
\* loadCacheManifest found no file.
C11_MissingManifestSkipped == ~(pc = "failed" /\ failure = "ENOENT")

\* C12: the output stage calls neither the Item Source nor the fetcher nor
\* the generator and writes no cache file, and when it is done the text
\* files of every meeting are exactly those of the groups of its manifest,
\* each with the text determined by the cache files of its members.
C12_CacheIsSourceOfTruth ==
  /\ runs = 0 /\ fetched = {} /\ failedFetch = {} /\ generated = {}
  /\ \A id \in Ids : writeCount[id] = 0
  /\ pc = "done" =>
       \A n \in Numbers :
         /\ DOMAIN siteFiles[n] =
              {ExpectedFileName(StoredGroups(n)[g].sessionName) : g \in 1..Len(StoredGroups(n))}
         /\ \A g \in 1..Len(StoredGroups(n)) :
              siteFiles[n][ExpectedFileName(StoredGroups(n)[g].sessionName)].txt
                = ExpectedCombinedFrom(n, StoredGroups(n)[g], 1)

C12_Witness ==
  /\ pc = "done"
  /\ Len(cachedMeetings) >= 2
  /\ \A i \in 1..Len(cachedMeetings) : DOMAIN siteFiles[cachedMeetings[i]] # {}

\* C13: the combined text of a group is its members' texts, each behind
\* its date/time header, in the manifest's order with "\n\n---\n\n"
\* between them; members without header holding "one" and "two" give
\* "one\n\n---\n\ntwo".
C13_CombinedInManifestOrder ==
  \A n \in Numbers : \A g \in 1..Len(StoredGroups(n)) :
    LET group == StoredGroups(n)[g]
        file == ExpectedFileName(group.sessionName)
        first == group.sessions[1].sessionId
        last == group.sessions[Len(group.sessions)].sessionId
    IN file \in DOMAIN siteFiles[n] =>
         /\ Len(group.sessions) = 1 =>
              siteFiles[n][file].txt = ExpectedPart(n, group, 1)
         /\ Len(group.sessions) = 2 =>
              siteFiles[n][file].txt
                = ExpectedPart(n, group, 1) \o "\n\n---\n\n" \o ExpectedPart(n, group, 2)
         /\ ( /\ Len(group.sessions) = 2
              /\ ExpectedHeader(first) = "" /\ ExpectedHeader(last) = ""
              /\ cacheFiles[n][first] = "one" /\ cacheFiles[n][last] = "two" ) =>
              siteFiles[n][file].txt = "one\n\n---\n\ntwo"

C13_Witness ==
  \E n \in Numbers :
    /\ DOMAIN siteFiles[n] = {<<"a">>, <<"b">>, <<"c">>}
    /\ siteFiles[n][<<"b">>].txt = "one\n\n---\n\ntwo"
    /\ siteFiles[n][<<"c">>].txt = "**Session Date/Time:** 21 Jul 2025 07:30\n\nthree"

\* Position of a letter in the alphabet, whatever its case.
LetterRank(c) == IF IsIn(c, UpperCase) THEN IndexOf(c, UpperCase) ELSE IndexOf(c, LowerCase)

\* a comes before b, or equals it, alphabetically and without regard to
\* case.
InsensitiveLeq(a, b) ==
  \E k \in 1..(Len(a) + 1) :
    /\ \A i \in 1..(k - 1) : i <= Len(b) /\ LetterRank(a[i]) = LetterRank(b[i])
    /\ k > Len(a) \/ (k <= Len(b) /\ LetterRank(a[k]) < LetterRank(b[k]))

\* C15: the index of a meeting lists the group names of the meeting's
\* manifest, each once, in alphabetical order without regard to case,
\* whatever the order in the manifest; the names c, B, a are listed as
\* a, B, c.
C15_IndexSortedCaseInsensitive ==
  \A n \in Numbers :
    siteIndex[n].exists =>
      LET listed == siteIndex[n].sessions
          groups == StoredGroups(n)
      IN /\ Len(listed) = Len(groups)
         /\ {listed[i] : i \in 1..Len(listed)} = {groups[i].sessionName : i \in 1..Len(groups)}
         /\ \A i, j \in 1..Len(listed) : i < j => InsensitiveLeq(listed[i], listed[j])
         /\ groups = GroupsA => listed = << <<"a">>, <<"B">>, <<"c">> >>

C15_Witness ==
  \E n \in Numbers :
    /\ siteIndex[n].exists
    /\ StoredGroups(n) = GroupsA
    /\ siteIndex[n].sessions = << <<"a">>, <<"B">>, <<"c">> >>

\* ----------------------------------------------- the functions on their own
\* The meeting numbers of the directories named ietf<N> of a listing.
MeetingsListed(dir) == {n \in Numbers : HasMeetingDir(dir, n)}

WellFormedTimestamp(sessionId) ==
  LET parts == Split(sessionId, "-")
      n == Len(parts)
  IN /\ n >= 2
     /\ Len(parts[n - 1]) = 8 /\ \A i \in 1..Len(parts[n - 1]) : IsDigit(parts[n - 1][i])
     /\ Len(parts[n]) = 4 /\ \A i \in 1..Len(parts[n]) : IsDigit(parts[n][i])

\* C19: parseSessionId gives a non-empty date/time header only for a
\* session id whose last two fields are an 8-digit date and a 4-digit
\* time; for every other id the header is empty.
C19_HeaderOnlyWhenWellFormed ==
  output.fn = "parseSessionId" =>
    (output.dateTimeHeader # "" => WellFormedTimestamp(input.sessionId))

\* C20: loading the manifest that saveCacheManifest wrote for some groups
\* returns these groups: same order, same members, same order of members.
C20_ManifestRoundTrip ==
  output.fn = "loadCacheManifest" =>
    /\ output.loaded.error = ""
    /\ output.loaded.sessionGroups = input.groups

C20_Witness ==
  /\ output.fn = "loadCacheManifest"
  /\ Len(input.groups) = 2
  /\ input.groups[1].sessionName = <<"B">> /\ input.groups[2].sessionName = <<"a">>
  /\ input.groups[1].sessions = <<MemberOf(W1, "u1"), MemberOf(N2, "u2")>>
  /\ output.loaded.sessionGroups = input.groups

\* C22: when generateMinutes fails for a session, the run has written no
\* cache file for that session, and the run that follows starts with the
\* session still missing from the cache, so it is a cache miss again.
C22_GeneratorFailureLeavesCacheMiss ==
  /\ [](failure = "generator" =>
          /\ InPass
          /\ Pos \in generated
          /\ Pos \notin wrote
          /\ ~cacheExists(CurSession.sessionId))
  /\ [][(failure = "generator" /\ runs' = runs + 1) =>
          cache'[CurSession.sessionId] = Absent]_vars

\* A run gave up on a generator failure after it had cached another
\* session, and one more run can follow.
C22_Witness ==
  /\ failure = "generator"
  /\ pc = "failed"
  /\ wrote # {}
  /\ runs < MaxRuns

\* Every position of the session list of the run, and the positions the
\* run is through with.
AllPositions ==
  {p \in (1..MaxItems) \X (1..MaxItems) :
     /\ p[1] <= Len(sessionsByName)
     /\ p[2] <= Len(sessionsByName[p[1]].sessionGroup)}

FinishedPositions == hit \cup failedFetch \cup wrote

\* C25: in a run a session is looked up in the cache first; only a miss is
\* fetched, only a fetched transcript is given to the generator, and only a
\* session the generator was called for gets a cache file. The cache changes
\* only while the current session is past its generator call, and the
\* manifest is written only when every session of the run is through its
\* cache lookup, failed fetch or completed cache write; no cache file
\* changes in the run after the manifest was saved.
C25_StepOrder ==
  /\ [](/\ hit \cap fetched = {}
        /\ failedFetch \subseteq fetched
        /\ generated \subseteq fetched \ failedFetch
        /\ wrote \subseteq generated
        /\ (pc \in {"generating", "writing"} => Pos \in generated)
        /\ ((pc = "savingManifest" \/ savedThisRun) =>
               AllPositions \subseteq FinishedPositions))
  /\ [][/\ (fetched' # fetched /\ runs' = runs) =>
             (pc = "check" /\ ~cacheExists(CurSession.sessionId))
        /\ (generated' # generated /\ runs' = runs) =>
             (pc = "fetching" /\ Pos \in fetched)
        /\ cache' # cache =>
             (pc \in {"generating", "writing"} /\ Pos \in generated)
        /\ manifest' # manifest =>
             (/\ pc \in {"passdone", "savingManifest"}
              /\ AllPositions \subseteq FinishedPositions
              /\ cache' = cache)
        /\ (savedThisRun /\ runs' = runs) => cache' = cache]_vars

\* A run with a cache hit, a failed fetch and a completed cache write has
\* saved its manifest.
C25_Witness ==
  /\ pc = "done"
  /\ savedThisRun
  /\ hit # {}
  /\ failedFetch # {}
  /\ wrote # {}
  /\ AllPositions = FinishedPositions

\* C26: when the output stage is done, every meeting it wrote an index for
\* is one of the meetings the root index lists.
C26_RootIndexListsAssembled ==
  pc = "done" =>
    \A n \in Numbers :
      siteIndex[n].exists =>
        \E i \in 1..Len(rootIndex.meetings) : rootIndex.meetings[i] = n

\* C27: no step of the output stage, in a first invocation or in a later
\* one, changes the cache directory, a manifest file or a cache file, nor
\* anything the summarize stage keeps.
C27_OutputLeavesCacheUnchanged ==
  [][UNCHANGED <<cacheBase, manifests, cacheFiles, cache, manifest, writeCount>>]_vars

\* The output stage writes a group's files again in an invocation after
\* one that ran to its end.
C27_Witness ==
  /\ pc = "outGroup"
  /\ ogi > 1
  /\ rootIndex.exists
  /\ siteIndex[cachedMeetings[mi]].exists

\* C30: when the output stage has ended, every meeting directory of the
\* cache has its index in the output area.
C30_AssemblesEveryCachedMeeting ==
  pc \in {"done", "failed"} =>
    \A n \in MeetingsInCache : siteIndex[n].exists

\* A string has the form IETF<digits>-<name>-<8 digits>-<4 digits>: split
\* at the hyphens, its first field is IETF and at least one digit, its last
\* two fields are 8 and 4 digits, and the fields between them, the name
\* with its own hyphens, are alphanumeric and not one empty field alone.
Alphanumeric(part) ==
  \A i \in 1..Len(part) :
    IsIn(part[i], UpperCase) \/ IsIn(part[i], LowerCase) \/ IsIn(part[i], Digits)

OnlyDigits(part, n) ==
  Len(part) = n /\ \A i \in 1..Len(part) : IsIn(part[i], Digits)

WellFormedSessionId(chars) ==
  LET parts == Split(chars, "-")
      n == Len(parts)
  IN /\ n >= 4
     /\ Len(parts[1]) >= 5
     /\ SubSeq(parts[1], 1, 4) = IETF
     /\ OnlyDigits(SubSeq(parts[1], 5, Len(parts[1])), Len(parts[1]) - 4)
     /\ \A i \in 2..(n - 2) : Alphanumeric(parts[i])
     /\ ~(n = 4 /\ parts[2] = <<>>)
     /\ OnlyDigits(parts[n - 1], 8)
     /\ OnlyDigits(parts[n], 4)

\* C24: isValidSessionId is true exactly for the strings of the form
\* IETF<digits>-<name>-<8 digits>-<4 digits>, the name made of letters,
\* digits and hyphens; it is false for null, undefined and numbers, for
\* the empty string and for ids without the IETF prefix, the date or the
\* time.
C24_ValidExactlyForPattern ==
  output.fn = "isValidSessionId" =>
    /\ output.valid <=>
         (input.value.type = "string" /\ WellFormedSessionId(input.value.chars))
    /\ input.value.type # "string" => ~output.valid
    /\ input.value = StringValue(<<>>) => ~output.valid
    /\ input.value = StringValue(<<"1", "-", "a", "-">> \o Date1 \o <<"-">> \o Time1)
         => ~output.valid
    /\ input.value = StringValue(IETF \o <<"1", "-", "a", "-">> \o Date1)
         => ~output.valid
    /\ input.value = StringValue(IETF \o <<"1", "-", "a", "-", "2", "0", "2", "5", "-">> \o Time1)
         => ~output.valid

\* An id whose name holds a hyphen is accepted.
C24_Witness ==
  /\ output.fn = "isValidSessionId"
  /\ input.value = StringValue(IETF \o <<"1", "2", "-", "6", "L", "-", "a", "-">>
                                 \o Date1 \o <<"-">> \o Time1)
  /\ output.valid

\* The sessions of a list with a well-formed id, and the others, in the
\* order of the list.
HasWellFormedId(session) ==
  session.sessionId.type = "string" /\ WellFormedSessionId(session.sessionId.chars)

HasNoWellFormedId(session) == ~HasWellFormedId(session)

\* C23: fetchSessionsWithValidation returns the fetched sessions with a
\* valid id as validSessions and the others as invalidSessions, both in the
\* order of the fetched list, so each fetched session is in exactly one of
\* them; stats.total is stats.valid plus stats.invalid; fetchValidSessions
\* returns the validSessions list.
C23_ValidationPartitions ==
  /\ output.fn = "fetchSessionsWithValidation" =>
       LET r == output.validation
       IN /\ r.validSessions = SelectSeq(input.allSessions, HasWellFormedId)
          /\ r.invalidSessions = SelectSeq(input.allSessions, HasNoWellFormedId)
          /\ Len(r.validSessions) + Len(r.invalidSessions) = Len(input.allSessions)
          /\ r.stats.total = Len(input.allSessions)
          /\ r.stats.valid = Len(r.validSessions)
          /\ r.stats.invalid = Len(r.invalidSessions)
          /\ r.stats.total = r.stats.valid + r.stats.invalid
  /\ output.fn = "fetchValidSessions" =>
       output.validSessions = SelectSeq(input.allSessions, HasWellFormedId)

\* A list of an invalid session between two valid ones is given to
\* fetchValidSessions.
C23_Witness ==
  /\ output.fn = "fetchValidSessions"
  /\ Len(input.allSessions) = 3
  /\ input.allSessions[1].sessionId = StringValue(ValidId2)
  /\ input.allSessions[2].sessionId = NullValue
  /\ input.allSessions[3].sessionId = StringValue(ValidId1)
  /\ Len(output.validSessions) = 2

\* ------------------------------------------------------------------
\* C29: when several of --summarize, --output and --build are given, the
\* stages of one invocation are entered in the order summarize, output,
\* build and only those asked for; a stage is entered only when main is
\* at its start or the stage before has completed without failure; once
\* a stage has failed the process has exited with status 1 and no stage
\* is entered any more.
WantedStages ==
  LET Wanted(stage) ==
        IF stage = "summarize" THEN argv.summarize # 0
        ELSE IF stage = "output" THEN argv.output
        ELSE argv.build \/ argv.pages
  IN SelectSeq(<<"summarize", "output", "build">>, Wanted)

C29_StagesInOrder ==
  /\ [](argv.preview = <<>> =>
          /\ Len(stageLog) <= Len(WantedStages)
          /\ stageLog = SubSeq(WantedStages, 1, Len(stageLog))
          /\ (failure # "none" => pc = "failed")
          /\ (pc = "main" => stageLog = <<>>))
  /\ [][stageLog' # stageLog =>
          /\ pc \in {"main", "done"}
          /\ failure = "none"
          /\ Len(stageLog') = Len(stageLog) + 1]_vars
  /\ [][pc = "failed" => stageLog' = stageLog /\ pc' = "failed"]_vars

C29_Witness ==
  /\ pc = "done"
  /\ stageLog = <<"summarize", "output", "build">>
  /\ wrote # {}
  /\ rootIndex.exists
  /\ siteBuild.exists

\* ------------------------------------------------------------------
\* C28: a command line with --preview and any other action is rejected
\* before any stage is entered; an invocation with --preview changes
\* neither the cache (files, manifest, directory) nor the site (output
\* files, indexes, _site) and takes no session from the cache; when it
\* has printed, every session of the asked name was fetched, the ones
\* whose download failed were skipped, and the minutes of all the others
\* were generated and printed in order.
C28_PreviewBypassesPersistence ==
  /\ [](argv.preview # <<>>
          /\ (argv.summarize # 0 \/ argv.output \/ argv.build \/ argv.pages)
          => /\ stageLog = <<>>
             /\ pc \in {"start", "failed"}
             /\ (pc = "failed" => failure = "usage"))
  /\ [][argv.preview # <<>> =>
          UNCHANGED <<cache, manifest, writeCount, hit, wrote, cacheBase, manifests,
                      cacheFiles, siteFiles, siteIndex, siteRoot, rootIndex,
                      siteBuild>>]_vars
  /\ [](argv.preview # <<>> /\ preview.printed =>
          LET m == preview.matchingSessions
          IN /\ m = SelectSeq(sessions, IsPreviewed)
             /\ preview.fetched = 1..Len(m)
             /\ preview.failed \subseteq preview.fetched
             /\ preview.generated = preview.fetched \ preview.failed
             /\ Len(preview.allMinutes) = Cardinality(preview.generated)
             /\ preview.text = JoinText(preview.allMinutes, "\n\n---\n\n"))

C28_Witness ==
  /\ preview.printed
  /\ argv.preview = <<"1", "2", ":", "x">>
  /\ Len(preview.matchingSessions) = 2
  /\ preview.matchingSessions[1].sessionId = "A1"
  /\ cache["A1"] # Absent
  /\ preview.failed = {2}
  /\ preview.generated = {1}
  /\ Len(preview.allMinutes) = 1
\* ------------------------------------------------------------------
\* C21: when --summarize is invoked again and again and every download
\* and every generateMinutes call that keeps being tried succeeds at some
\* time, then from some invocation on every session of the list has a
\* cache file and is a member of a group of the manifest, and no
\* invocation calls generateMinutes any more.
ListedInManifest(id) ==
  /\ manifest.state = "ok"
  /\ \E k \in 1..Len(manifest.sessionGroups) :
       \E j \in 1..Len(manifest.sessionGroups[k].sessions) :
         manifest.sessionGroups[k].sessions[j].sessionId = id

AllCachedAndListed ==
  \A i \in 1..Len(sessions) :
    cache[sessions[i].sessionId] # Absent /\ ListedInManifest(sessions[i].sessionId)

C21_RetryConverges == <>[](AllCachedAndListed /\ generated = {})

\* ------------------------------------------------------------------
\* C33: when a --summarize invocation has completed without error, every
\* session of the list whose cache file exists and is not empty is a
\* member of a group of the manifest file.
C33_ManifestListsCachedItems ==
  pc = "done" =>
    \A i \in 1..Len(sessions) :
      cache[sessions[i].sessionId] \notin {Absent, ""}
        => ListedInManifest(sessions[i].sessionId)

\* ------------------------------------------------------------------
\* C34: in every state of sequential --summarize invocations, also after
\* failed and terminated ones, every session id that is a member of a
\* group of a complete manifest file has a cache file.
C34_ManifestMembersAreCached ==
  manifest.state = "ok" =>
    \A k \in 1..Len(manifest.sessionGroups) :
      \A j \in 1..Len(manifest.sessionGroups[k].sessions) :
        cache[manifest.sessionGroups[k].sessions[j].sessionId] # Absent

C34_Witness ==
  /\ runs = 2
  /\ pc = "done"
  /\ savedThisRun
  /\ hit # {}
  /\ failedFetch # {}
  /\ \E i \in 1..Len(sessions) : cache[sessions[i].sessionId] = Absent
  /\ \E id \in Ids : ListedInManifest(id)

\* ------------------------------------------------------------------
\* C35: no session id is twice a member of the groups of a complete
\* manifest file, whatever list the Item Source returned.
C35_ManifestListsEachIdOnce ==
  manifest.state = "ok" =>
    \A k1, k2 \in 1..Len(manifest.sessionGroups) :
      \A j1 \in 1..Len(manifest.sessionGroups[k1].sessions) :
        \A j2 \in 1..Len(manifest.sessionGroups[k2].sessions) :
          manifest.sessionGroups[k1].sessions[j1].sessionId
            = manifest.sessionGroups[k2].sessions[j2].sessionId
          => k1 = k2 /\ j1 = j2

\* ------------------------------------------------------------------
\* C36: whenever the loop finds the cache file of a session (a cache
\* hit), the file holds the complete, non-empty text generateMinutes
\* returned for the session, also after terminated invocations.
C36_CacheHitsAreComplete ==
  pc = "check" /\ cacheExists(CurSession.sessionId)
    => cache[CurSession.sessionId] = TextOf[CurSession.sessionId]

\* ------------------------------------------------------------------
\* C37: every session id the summarize stage downloads a transcript for,
\* writes a cache file for or lists in the manifest satisfies
\* isValidSessionId.
C37_OnlyValidIdsProcessed ==
  \A id \in Ids :
    (\/ cache[id] # Absent
     \/ ListedInManifest(id)
     \/ \E p \in fetched : SessionAt(p).sessionId = id)
    => isValidSessionId(StringValue(IdChars[id]))

\* ------------------------------------------------------------------
\* The groups of a meeting's manifest file as it is now.
CurrentGroups(n) ==
  IF manifests[n] = saveCacheManifest("t1", GroupsA) THEN GroupsA
  ELSE IF manifests[n] = saveCacheManifest("t2", GroupsB) THEN GroupsB
  ELSE <<>>

\* C38: when the output stage has assembled all groups of a meeting, the
\* meeting's output directory holds for every group of the manifest a
\* record with that group's combined text: no group's record was
\* overwritten by another group's.
C38_OneRecordPerGroup ==
  pc = "outGroup" /\ ogi > Len(sessionGroupsOut) =>
    LET n == cachedMeetings[mi]
        groups == CurrentGroups(n)
    IN \A k \in 1..Len(groups) :
         \E f \in DOMAIN siteFiles[n] :
           siteFiles[n][f].txt = ExpectedCombinedFrom(n, groups[k], 1)

\* ------------------------------------------------------------------
\* C40: when an --output invocation has ended, every record in the output
\* directory of a meeting it assembled holds the combined text of a group
\* of the meeting's manifest as it is now: no record of a group that is no
\* longer in the manifest is left.
C40_NoStaleRecords ==
  pc = "done" =>
    \A i \in 1..Len(cachedMeetings) :
      LET n == cachedMeetings[i]
          groups == CurrentGroups(n)
      IN \A f \in DOMAIN siteFiles[n] :
           \E k \in 1..Len(groups) :
             siteFiles[n][f].txt = ExpectedCombinedFrom(n, groups[k], 1)

\* ------------------------------------------------------------------
\* C32: when a step of the GitHub Pages preparation has failed, the
\* directory gh-pages-repo does not exist any more and the working
\* directory of the process is the one buildSite was called in.
C32_PagesFailureCleansUp ==
  failure = "pages" => ~ghPagesRepo /\ cwd = "."


\* ------------------------------------------- the generator's module state
\* generator.js 69-89, 98-184: the module holds two client objects and
\* the name of the selected backend; calls is the log of the calls made
\* to the module's exported functions, each with the client the call
\* sent an API request to (NoClient when it sent none) and the error it
\* threw ("" when it sent a request, whatever the API answered).
MaxCalls == 4      \* most calls of the generator's functions in one behaviour

ApiKeys == {"k1", "k2"}

ErrClaudeNotInitialized == "Claude API not initialized"

ErrGeminiNotInitialized == "Gemini API not initialized"

ErrNoModel == "No model initialized"

Call(fn, key, request, error) ==
  [fn |-> fn, apiKey |-> key, request |-> request, error |-> error]

GeneratorInit ==
  /\ PipelineIdle
  /\ OutputIdle
  /\ FunctionIdle
  /\ CliIdle
  /\ pc = "idle"
  /\ failure = "none"

\* generator.js 77-80.
initializeClaude ==
  /\ Len(calls) < MaxCalls
  /\ \E key \in ApiKeys :
       /\ anthropic' = Client("anthropic", key)
       /\ currentModel' = "claude"
       /\ calls' = Append(calls, Call("initializeClaude", key, NoClient, ""))
  /\ UNCHANGED <<gemini, pipeVars, outVars, fnVars, pc, failure,
                 argv, apiKey, stageLog, siteBuild, preview, pagesVars, raceVars>>

\* generator.js 86-89.
initializeGemini ==
  /\ Len(calls) < MaxCalls
  /\ \E key \in ApiKeys :
       /\ gemini' = Client("gemini", key)
       /\ currentModel' = "gemini"
       /\ calls' = Append(calls, Call("initializeGemini", key, NoClient, ""))
  /\ UNCHANGED <<anthropic, pipeVars, outVars, fnVars, pc, failure,
                 argv, apiKey, stageLog, siteBuild, preview, pagesVars, raceVars>>

\* generator.js 130-175: the client generateMinutes sends its request
\* to, or the error it throws before sending one.
SelectBackendClaudeOnly(model, claude, google) ==
  IF claude.isNull
    THEN [request |-> NoClient, error |-> ErrClaudeNotInitialized]
    ELSE [request |-> claude, error |-> ""]

SelectBackend(model, claude, google) ==
  IF model = "claude"
    THEN IF claude.isNull
           THEN [request |-> NoClient, error |-> ErrClaudeNotInitialized]
           ELSE [request |-> claude, error |-> ""]
    ELSE IF model = "gemini"
           THEN IF google.isNull
                  THEN [request |-> NoClient, error |-> ErrGeminiNotInitialized]
                  ELSE [request |-> google, error |-> ""]
           ELSE [request |-> NoClient, error |-> ErrNoModel]

\* generator.js 98-184: one call of generateMinutes; the module's state
\* is read and not written.
generateMinutes ==
  /\ Len(calls) < MaxCalls
  /\ LET sel == SelectBackend(currentModel, anthropic, gemini)
     IN  calls' = Append(calls,
                         Call("generateMinutes", "", sel.request, sel.error))
  /\ UNCHANGED <<anthropic, gemini, currentModel, pipeVars, outVars, fnVars,
                 pc, failure, argv, apiKey, stageLog, siteBuild,
                 preview, pagesVars, raceVars>>

GeneratorNext ==
  \/ initializeClaude
  \/ initializeGemini
  \/ generateMinutes

GeneratorSpec == GeneratorInit /\ [][GeneratorNext]_vars

IsInitialize(c) == c.fn \in {"initializeClaude", "initializeGemini"}

\* The index in calls of the most recent initialize call before call i,
\* 0 when there is none.
LastInitializeBefore(i) ==
  LET js == {j \in 1..(i - 1) : IsInitialize(calls[j])}
  IN  IF js = {} THEN 0 ELSE CHOOSE j \in js : \A k \in js : k <= j

\* The client an initialize call constructs.
ClientOf(c) ==
  IF c.fn = "initializeClaude"
    THEN Client("anthropic", c.apiKey)
    ELSE Client("gemini", c.apiKey)

\* C31: every generateMinutes call sends its request to the client that
\* the most recent initializeClaude or initializeGemini call before it
\* constructed; with no initialize call before it, it throws 'No model
\* initialized' and sends no request; and whenever a backend is selected
\* the client object of that backend is not null.
C31_BackendOfLastInitialize ==
  /\ \A i \in 1..Len(calls) :
       calls[i].fn = "generateMinutes" =>
         LET j == LastInitializeBefore(i)
         IN  IF j = 0
               THEN calls[i].request = NoClient /\ calls[i].error = ErrNoModel
               ELSE calls[i].request = ClientOf(calls[j]) /\ calls[i].error = ""
  /\ currentModel = "claude" => ~anthropic.isNull
  /\ currentModel = "gemini" => ~gemini.isNull

\* Both backends were initialized, Gemini last, and generateMinutes then
\* sent its request to the Gemini client.
C31_Witness ==
  /\ Len(calls) = 3
  /\ calls[1].fn = "initializeClaude"
  /\ calls[2].fn = "initializeGemini"
  /\ calls[3].fn = "generateMinutes"
  /\ calls[3].request = gemini
  /\ ~gemini.isNull


\* -------------------------------------- two --summarize runs side by side
\* Two invocations of --summarize for the same meeting run at the same
\* time. Each walks the same grouped session list (index.js 331-335) and
\* calls generateSessionMinutes (index.js 37-64) for every session; the
\* invocations share the cache files and nothing else, and a step of one
\* can happen between any two awaits of the other. procs[p] holds the
\* locals of invocation p: its position in the loops, where it is inside
\* generateSessionMinutes, the text generateMinutes returned, and its
\* log: the ids it read from the cache, generated, wrote, and wrote over
\* a file an invocation had read before.
Runners == {1, 2}

Runner(g, at) ==
  [gi |-> g, si |-> 1, pc |-> at, minutes |-> "",
   read |-> {}, generated |-> {}, wrote |-> {}, overwrote |-> {}]

RaceInit ==
  /\ sessions \in SeqsUpTo({Session(id) : id \in Ids}, MaxItems)
  /\ sessionsByName = GroupByName(sessions)
  /\ cache = [id \in Ids |-> Absent]
  /\ writeCount = [id \in Ids |-> 0]
  /\ manifest = NoManifest
  /\ runs = 0
  /\ gi = 1 /\ si = 1
  /\ processedSessions = <<>>
  /\ sessionGroups = <<>>
  /\ anyNewMinutes = FALSE
  /\ minutes = ""
  /\ hit = {} /\ fetched = {} /\ failedFetch = {} /\ generated = {} /\ wrote = {}
  /\ manifestAtStart = NoManifest
  /\ savedThisRun = FALSE
  /\ pc = "idle"
  /\ failure = "none"
  /\ OutputIdle
  /\ FunctionIdle
  /\ argv = NoArguments
  /\ apiKey = TRUE
  /\ stageLog = <<>>
  /\ siteBuild = NoBuild
  /\ preview = NoPreview
  /\ PagesIdle
  /\ GeneratorLoaded
  /\ procs = [p \in Runners |->
                Runner(1, IF sessions = <<>> THEN "done" ELSE "check")]

raceRest == <<sessions, manifest, pc, runs, mainVars, logVars, runVars, failure,
              outVars, fnVars, argv, apiKey, stageLog, siteBuild, preview,
              pagesVars, genVars>>

\* The session invocation p is at.
RunnerSession(p) == sessionsByName[procs[p].gi].sessionGroup[procs[p].si]

\* index.js 334-335: the loops move on to the next session, or end.
RunnerMovesOn(r) ==
  LET last == r.si >= Len(sessionsByName[r.gi].sessionGroup)
      g == IF last THEN r.gi + 1 ELSE r.gi
  IN  [r EXCEPT !.gi = g,
                !.si = IF last THEN 1 ELSE r.si + 1,
                !.pc = IF g > Len(sessionsByName) THEN "done" ELSE "check",
                !.minutes = ""]

\* index.js 39: cacheExists answers true.
RaceCacheHit(p) ==
  /\ procs[p].pc = "check"
  /\ cacheExists(RunnerSession(p).sessionId)
  /\ procs' = [procs EXCEPT ![p].pc = "read"]
  /\ UNCHANGED <<cache, writeCount, raceRest>>

\* index.js 41-44: getCachedMinutes returns the file's content.
RaceGetCachedMinutes(p) ==
  /\ procs[p].pc = "read"
  /\ LET id == RunnerSession(p).sessionId
     IN  procs' = [procs EXCEPT
                     ![p] = RunnerMovesOn([@ EXCEPT !.read = @ \cup {id}])]
  /\ UNCHANGED <<cache, writeCount, raceRest>>

\* index.js 39, 47: cacheExists answers false.
RaceCacheMiss(p) ==
  /\ procs[p].pc = "check"
  /\ ~cacheExists(RunnerSession(p).sessionId)
  /\ procs' = [procs EXCEPT ![p].pc = "download"]
  /\ UNCHANGED <<cache, writeCount, raceRest>>

\* index.js 49-53: downloadTranscript throws, the session is left out.
RaceDownloadFails(p) ==
  /\ procs[p].pc = "download"
  /\ procs' = [procs EXCEPT ![p] = RunnerMovesOn(@)]
  /\ UNCHANGED <<cache, writeCount, raceRest>>

\* index.js 49-50: downloadTranscript returns the transcript.
RaceDownloadSucceeds(p) ==
  /\ procs[p].pc = "download"
  /\ procs' = [procs EXCEPT ![p].pc = "generate"]
  /\ UNCHANGED <<cache, writeCount, raceRest>>

\* index.js 56-60: generateMinutes throws; the invocation ends.
RaceGenerateFails(p) ==
  /\ procs[p].pc = "generate"
  /\ procs' = [procs EXCEPT ![p].pc = "failed"]
  /\ UNCHANGED <<cache, writeCount, raceRest>>

\* index.js 56-60: generateMinutes returns a text.
RaceGenerateSucceeds(p) ==
  /\ procs[p].pc = "generate"
  /\ LET id == RunnerSession(p).sessionId
     IN  \E text \in GenOutputs(id) :
           procs' = [procs EXCEPT ![p].pc = "write",
                                  ![p].minutes = text,
                                  ![p].generated = @ \cup {id}]
  /\ UNCHANGED <<cache, writeCount, raceRest>>

\* index.js 61-63, publisher.js 112-120: saveCachedMinutes writes the
\* file, whatever it holds by now.
RaceSaveCachedMinutes(p) ==
  /\ procs[p].pc = "write"
  /\ LET id == RunnerSession(p).sessionId
         wasRead == \E q \in Runners : id \in procs[q].read
     IN  /\ cache' = [cache EXCEPT ![id] = procs[p].minutes]
         /\ writeCount' = [writeCount EXCEPT ![id] = @ + 1]
         /\ procs' = [procs EXCEPT
                        ![p] = RunnerMovesOn(
                                 [@ EXCEPT !.wrote = @ \cup {id},
                                           !.overwrote =
                                             IF wasRead THEN @ \cup {id} ELSE @])]
  /\ UNCHANGED raceRest

RaceNext ==
  \/ \E p \in Runners : RaceCacheHit(p)
  \/ \E p \in Runners : RaceGetCachedMinutes(p)
  \/ \E p \in Runners : RaceCacheMiss(p)
  \/ \E p \in Runners : RaceDownloadFails(p)
  \/ \E p \in Runners : RaceDownloadSucceeds(p)
  \/ \E p \in Runners : RaceGenerateFails(p)
  \/ \E p \in Runners : RaceGenerateSucceeds(p)
  \/ \E p \in Runners : RaceSaveCachedMinutes(p)

RaceSpec == RaceInit /\ [][RaceNext]_vars

\* C39: when two summarize invocations interleave at their awaits, the
\* minutes of every session are generated at most once and written at
\* most once, and no cache file is written over after an invocation has
\* read it.
C39_AtMostOnceUnderInterleaving ==
  procs # <<>> =>
    /\ \A id \in Ids :
         /\ Cardinality({p \in Runners : id \in procs[p].generated}) <= 1
         /\ writeCount[id] <= 1
    /\ \A p \in Runners : procs[p].overwrote = {}
====
